---- MODULE Spec2Model ----
(***************************************************************************)
(* State-machine models of the components of p2c2r:                        *)
(*                                                                         *)
(*   - the PoC Coordinator        (src/src/p2c2g/coordinator.py) with its  *)
(*     PeerAgent                  (src/docs/archive/src/p2c2g/peer.py),    *)
(*   - the network CloudCoordinator (src/network/cloud_coordinator.py)     *)
(*     with its UserClient        (src/network/user_client.py),            *)
(*   - the FrameDistributor       (src/network/frame_distributor.py) with  *)
(*     the FrameCoordinator       (src/network/frame_network.py),          *)
(*   - the multi-device demo      (src/multi_device_demo/),                *)
(*   - the SpatialSplitter (src/docs/archive/src/p2c2g/task_splitter.py).  *)
(*                                                                         *)
(* All but the splitter are asyncio programs: one event loop, coroutines   *)
(* that run without interruption between two awaits.  Every action below   *)
(* is one such uninterrupted stretch of one coroutine; a variable holding  *)
(* a program counter says where each coroutine is suspended.               *)
(*                                                                         *)
(* Each component has its own specification (SpecPoC, SpecNet, SpecFD,     *)
(* SpecMD, SpecSplit) over the same variables; a specification leaves the  *)
(* other components' variables at their initial values.                    *)
(*                                                                         *)
(* Floats: a reputation is kept in hundredths (0..100 for 0.0..1.0), so    *)
(* the +0.02, -0.05, +0.01, -0.08 updates are +2, -5, +1, -8.              *)
(***************************************************************************)
EXTENDS Integers, Sequences, FiniteSets, TLC

\* Python's None where a peer or a task id is expected (ids are positive).
None == -1

Min(a, b) == IF a <= b THEN a ELSE b
Max(a, b) == IF a >= b THEN a ELSE b

Range(s) == {s[i] : i \in 1..Len(s)}

(***************************************************************************)
(* Bounds of the model.                                                    *)
(***************************************************************************)
\* PeerAgent objects that may be registered with the PoC Coordinator.
MaxPocPeers == 2
\* Coordinator(max_attempts=...) is drawn from 1..MaxAttemptsCap.
MaxAttemptsCap == 3

\* Peer nodes of the network CloudCoordinator.  Peer p talks on connection p
\* and names itself p in its messages; the task_id of a message is free.
MaxNetPeers == 2
\* Messages, connection closes and heartbeat expiries the network
\* CloudCoordinator sees in one run.
MaxNetEvents == 6

\* FrameDistributor(max_queue_size=MaxQueueSize): small, so that the pending
\* queue does fill up.
MaxQueueSize == 1
\* submit_frame calls in one run.
MaxFrames == 3
\* Peers known to the FrameDistributor.
MaxFdPeers == 2
\* Calls (submit_frame, register_peer, unregister_peer, submit_result) the
\* FrameDistributor sees in one run.
MaxFdEvents == 5

\* Messages, connection closes, clock ticks, expiries and client timeouts of
\* one run of the multi-device demo.
MaxMdEvents == 6
\* The coordinator's millisecond clock runs from 0 to MaxMdClock.
MaxMdClock == 1
\* Largest width and height of a resolution, and most tiles asked for.
MaxResolution == 5
MaxTiles == 5

PocPeerIds == 1..MaxPocPeers
FdPeerIds == 1..MaxFdPeers
\* frame_id is stats['frames_received'] at the call, so ids start at 0.
FdFrameIds == 0..(MaxFrames - 1)
FdGamerIds == {1, 2}
NetPeerIds == 1..MaxNetPeers
NetConns == 1..MaxNetPeers
\* The user clients of the run, each on a connection of its own, and the task
\* ids they submit (UserClient.submit_task draws a fresh uuid4 per task).
NetUsers == {1}
NetTasks == {1, 2}
\* The Task objects of the run, each passed to schedule_task at most once; the
\* two calls may overlap.  Tasks meet only in the peers' in_flight counts and
\* reputations.
PocTaskIds == {1, 2}

(***************************************************************************)
(* The PeerAgent objects of the run: PeerAgent(peer_id, base_latency_ms,   *)
(* reliability, max_throughput) for each peer_id.  reliability is in       *)
(* hundredths; 0 always fails, 100 always succeeds, 50 may do either.      *)
(* Peer 1 is the fast peer that always fails, peer 2 a fast peer that      *)
(* fails half the time, every further peer is slow and never fails.        *)
(***************************************************************************)
PeerAgent(p) ==
    IF p = 1 THEN [base_latency_ms |-> 10, reliability |-> 0,   max_throughput |-> 1]
    ELSE IF p = 2 THEN [base_latency_ms |-> 10, reliability |-> 50,  max_throughput |-> 2]
    ELSE [base_latency_ms |-> 40, reliability |-> 100, max_throughput |-> 2]

\* PeerAgent.heartbeat: latency_ms = base_latency_ms + random.randint(0, 20);
\* the model draws the random part from the two ends and the middle.
HeartbeatJitter == {0, 10, 20}

VARIABLES
    \* ---- PoC Coordinator (coordinator.py:39-45) ----
    max_attempts,     \* Coordinator.max_attempts
    peers,            \* Coordinator.peers: peer_id -> PeerAgent profile
    peer_order,       \* insertion order of the peers dict
    reputation,       \* Coordinator.reputation: peer_id -> hundredths
    pending,          \* Coordinator.pending: set of task ids
    completed,        \* Coordinator.completed: task_id -> Result
    renter_buffer,    \* Coordinator.renter_buffer: sequence of Result
    in_flight,        \* PeerAgent.in_flight per peer
    attempts,         \* Task.attempts per task
    pc,               \* where each task's schedule_task coroutine is
    cur_peer,         \* the local `peer` of the running attempt
    in_failover,      \* whether the running attempt was started by handle_failover
    success,          \* process_task's local `success`
    \* ---- history of the PoC run (not program state) ----
    attempt_log,      \* per task: the peer of each process_task call, in order,
                      \* with the number of peers registered when it was picked
    outcome_log,      \* per task: the outcome of each finished process_task call
    no_peer_at_submit, \* per task: schedule_task found no peer
    stream_call,      \* the assemble_stream call of the latest step, if it was
                      \* one: its argument and result (history)
    deadline_passed   \* whether the clock has reached created_at + deadline_ms
                      \* of every Task (models.py:39-41)

poc_vars == <<max_attempts, peers, peer_order, reputation, pending, completed,
              renter_buffer, in_flight, attempts, pc, cur_peer, in_failover,
              success, attempt_log, outcome_log, no_peer_at_submit,
              stream_call, deadline_passed>>

VARIABLES
    \* ---- network CloudCoordinator (cloud_coordinator.py:75-82) ----
    cc_peers,          \* CloudCoordinator.peers: peer_id -> PeerInfo
    cc_peer_order,     \* insertion order of the peers dict
    cc_users,          \* CloudCoordinator.users: user_id -> websocket
    cc_pending_tasks,  \* CloudCoordinator.pending_tasks: task_id -> task info
    conn_open,         \* per peer connection: not closed yet
    user_open,         \* per user connection: not closed yet
    h_pc,              \* per peer connection: where its message handler is suspended
    h_task,            \* the suspended handler's local task_id
    mon_pc,            \* where monitor_peers is: "sleep", "bcast", "crashed"
    mon_dead,          \* monitor_peers' dead_peers still to delete
    mon_bsize,         \* len(users) when the monitor's broadcast loop began
    mon_sent,          \* sends the monitor's broadcast loop has made
    \* ---- history of the network run (not program state) ----
    net_events,        \* inputs the coordinator has seen so far
    requested,         \* task ids a task_request has carried
    terminal_msgs      \* per task id: how many task_result / task_error
                       \* messages were sent to its user

net_vars == <<cc_peers, cc_peer_order, cc_users, cc_pending_tasks, conn_open,
              user_open, h_pc, h_task, mon_pc, mon_dead, mon_bsize, mon_sent,
              requested, terminal_msgs>>

VARIABLES
    \* ---- UserClient of the network coordinator (user_client.py:38-48) ----
    uc_pending_tasks,  \* per user: the task ids in UserClient.pending_tasks
    uc_inbox           \* per user: the task messages the coordinator sent on
                       \* its connection and handle_message has not handled yet

uc_vars == <<uc_pending_tasks, uc_inbox>>

VARIABLES
    \* ---- FrameDistributor (frame_distributor.py:72-95) ----
    fd_enable_fallback, \* FrameDistributor.enable_fallback
    fd_frames,          \* the Frame objects made so far, in order of creation
    fd_pending,         \* pending_frames: queue of Frame objects
    fd_active,          \* active_frames: frame_id -> Frame object
    fd_completed,       \* completed_frames: frame_id -> Frame object
    fd_available,       \* available_peers: list of peer ids
    fd_busy,            \* busy_peers: peer_id -> frame_id
    fd_stats,           \* stats (without avg_processing_time)
    fd_putters,         \* pending_frames._putters: coroutines waiting in put()
    fd_woken,           \* coroutines whose put() was woken and that have not run yet
    fd_monitors,        \* _monitor_frame_timeout tasks asleep, oldest first
    \* ---- history of the FrameDistributor run (not program state) ----
    fd_accepted,        \* Frame objects for which submit_frame returned a frame_id
    fd_discarded,       \* frame_id of the latest submit_result call that returned at once
    fd_events           \* calls made on the distributor so far

fd_vars == <<fd_enable_fallback, fd_frames, fd_pending, fd_active, fd_completed,
             fd_available, fd_busy, fd_stats, fd_putters, fd_woken,
             fd_monitors, fd_accepted, fd_discarded>>

VARIABLES
    \* ---- FrameCoordinator (frame_network.py:62-80) ----
    fc_frame_to_gamer,  \* frame_to_gamer: frame_id -> gamer_id
    \* ---- history of the FrameCoordinator run ----
    fc_last_reply       \* the last frame_result sent in answer to a frame_request

fc_vars == <<fc_frame_to_gamer, fc_last_reply>>

VARIABLES
    \* ---- multi-device CloudCoordinator (run_cloud.py:28-43) ----
    md_peers,         \* CloudCoordinator.peers: peer_id -> connection
    md_peer_order,    \* insertion order of the peers dict
    md_gamers,        \* CloudCoordinator.gamers: gamer_id -> connection
    md_pending,       \* CloudCoordinator.pending_tasks: task_id -> task info
    md_tasks_routed,  \* CloudCoordinator.tasks_routed
    md_h,             \* per connection: handle_client's locals and where it is
    md_now,           \* int(time.time() * 1000) of the coordinator's clock
    \* ---- CloudStorage tables (cloud_storage.py:25-78) ----
    st_tasks,         \* tasks: task_id -> row
    st_results,       \* results: rows in order of insertion
    st_peers,         \* peers: peer_id -> tasks_completed
    st_gamers,        \* gamers: gamer_id -> tasks_submitted
    \* ---- the GamerClient (run_gamer.py:25-40) ----
    gc_pending,       \* GamerClient.pending_tasks: keys of the waiting futures
    gc_submitted,     \* GamerClient.tasks_submitted
    gc_connected,     \* GamerClient.connected
    \* ---- messages and history of the multi-device run ----
    md_exec,          \* execute_task messages the peers have not answered yet
    md_delivered,     \* task_result messages sent to the gamer, in order
    md_events         \* inputs the coordinator has seen so far

md_vars == <<md_peers, md_peer_order, md_gamers, md_pending, md_tasks_routed,
             md_h, md_now, st_tasks, st_results, st_peers, st_gamers,
             gc_pending, gc_submitted, gc_connected, md_exec, md_delivered>>

VARIABLES
    \* ---- a SpatialSplitter._create_tiles call (task_splitter.py:133-163) ----
    sp_width,         \* width of complexity_map
    sp_height,        \* height of complexity_map
    sp_num_tiles,     \* the argument num_tiles
    sp_tiles          \* the list returned, NoTiles before the call returns

sp_vars == <<sp_width, sp_height, sp_num_tiles, sp_tiles>>

vars == <<poc_vars, net_vars, net_events, uc_vars, fd_vars, fd_events,
          fc_vars, md_vars, md_events, sp_vars>>

\* What each component leaves alone: the other components' variables.
not_poc_vars == <<net_vars, net_events, uc_vars, fd_vars, fd_events, fc_vars, md_vars,
                  md_events, sp_vars>>
not_net_vars == <<poc_vars, fd_vars, fd_events, fc_vars, md_vars, md_events,
                  sp_vars>>
not_fd_vars == <<poc_vars, net_vars, net_events, uc_vars, md_vars, md_events,
                 sp_vars>>
not_md_vars == <<poc_vars, net_vars, net_events, uc_vars, fd_vars, fd_events, fc_vars,
                 sp_vars>>
not_sp_vars == <<poc_vars, net_vars, net_events, uc_vars, fd_vars, fd_events, fc_vars,
                 md_vars, md_events>>


(***************************************************************************)
(* PoC Coordinator                                                         *)
(***************************************************************************)

\* assemble_stream has not been called yet.
NoCall == [called |-> FALSE]

\* Coordinator(max_attempts=m), nothing registered, no task scheduled.
InitPoC(m) ==
    /\ max_attempts = m
    /\ peers = << >>
    /\ peer_order = << >>
    /\ reputation = << >>
    /\ pending = {}
    /\ completed = << >>
    /\ renter_buffer = << >>
    /\ in_flight = [p \in PocPeerIds |-> 0]
    /\ attempts = [t \in PocTaskIds |-> 0]
    /\ pc = [t \in PocTaskIds |-> "new"]
    /\ cur_peer = [t \in PocTaskIds |-> None]
    /\ in_failover = [t \in PocTaskIds |-> FALSE]
    /\ success = [t \in PocTaskIds |-> FALSE]
    /\ attempt_log = [t \in PocTaskIds |-> << >>]
    /\ outcome_log = [t \in PocTaskIds |-> << >>]
    /\ no_peer_at_submit = [t \in PocTaskIds |-> FALSE]
    /\ stream_call = NoCall
    /\ deadline_passed = FALSE

\* Coordinator.register_peer, for a PeerAgent whose peer_id is not registered
\* yet.  Peers are registered before the first task is scheduled, as every
\* caller in the repository does (examples/p2c2r_POC.py, tests/test_coordinator.py).
register_peer(p) ==
    /\ p \notin DOMAIN peers
    /\ \A t \in PocTaskIds : pc[t] = "new"
    /\ peers' = (p :> PeerAgent(p)) @@ peers
    /\ peer_order' = Append(peer_order, p)
    /\ reputation' = (p :> PeerAgent(p).reliability) @@ reputation
    /\ UNCHANGED <<max_attempts, pending, completed, renter_buffer, in_flight,
                   attempts, pc, cur_peer, in_failover, success, attempt_log,
                   outcome_log, no_peer_at_submit>>
    /\ stream_call' = NoCall
    /\ UNCHANGED deadline_passed
    /\ UNCHANGED not_poc_vars

\* The cost pick_peer gives peer p when its heartbeat reports jitter j:
\* latency_ms + in_flight * 15 + int((1.0 - reputation) * 50).
PeerCost(p, j) ==
    peers[p].base_latency_ms + j + (in_flight[p] * 15)
        + (((100 - reputation[p]) * 50) \div 100)

\* A wrong form of pick_peer: the first registered peer, whatever its cost.
pick_peer_First(jit) ==
    IF peer_order = << >> THEN None ELSE peer_order[1]

\* Coordinator.pick_peer under the heartbeat jitters jit (peer -> jitter):
\* the first peer, in dict order, of least cost (list.sort is stable); None
\* when no peer is registered.
pick_peer(jit) ==
    IF peer_order = << >> THEN None
    ELSE LET best == CHOOSE i \in 1..Len(peer_order) :
                        \A k \in 1..Len(peer_order) :
                            \/ PeerCost(peer_order[i], jit[peer_order[i]])
                                 < PeerCost(peer_order[k], jit[peer_order[k]])
                            \/ /\ PeerCost(peer_order[i], jit[peer_order[i]])
                                    = PeerCost(peer_order[k], jit[peer_order[k]])
                               /\ i <= k
         IN  peer_order[best]

\* random.random() < reliability: the outcomes a peer of this reliability can draw.
Outcomes(rel) ==
    IF rel = 0 THEN {FALSE} ELSE IF rel = 100 THEN {TRUE} ELSE {TRUE, FALSE}

\* PeerAgent.process_task from `in_flight += 1` to the await of the simulated
\* execution (peer.py:62-73).
EnterExecution(t, p) ==
    /\ in_flight' = [in_flight EXCEPT ![p] = @ + 1]
    /\ success' \in {[success EXCEPT ![t] = ok] : ok \in Outcomes(peers[p].reliability)}
    /\ pc' = [pc EXCEPT ![t] = "exec"]

\* A call peer.process_task(task) up to its first await (peer.py:55-73): an
\* overloaded peer makes the caller sleep before it counts the task in.
StartProcess(t, p, failover) ==
    /\ cur_peer' = [cur_peer EXCEPT ![t] = p]
    /\ in_failover' = [in_failover EXCEPT ![t] = failover]
    /\ attempt_log' = [attempt_log EXCEPT ![t] =
           Append(@, [peer |-> p, registered |-> Cardinality(DOMAIN peers)])]
    /\ IF in_flight[p] >= peers[p].max_throughput
       THEN /\ pc' = [pc EXCEPT ![t] = "wait"]
            /\ UNCHANGED <<in_flight, success>>
       ELSE EnterExecution(t, p)

\* Coordinator.schedule_task up to its first await (coordinator.py:79-90).
schedule_task(t) ==
    /\ pc[t] = "new"
    /\ pending' = pending \cup {t}
    /\ attempts' = [attempts EXCEPT ![t] = @ + 1]
    /\ \E jit \in [DOMAIN peers -> HeartbeatJitter] :
         LET peer == pick_peer(jit) IN
         IF peer = None
         THEN /\ pc' = [pc EXCEPT ![t] = "done"]
              /\ no_peer_at_submit' = [no_peer_at_submit EXCEPT ![t] = TRUE]
              /\ UNCHANGED <<cur_peer, in_failover, attempt_log, in_flight, success>>
         ELSE /\ StartProcess(t, peer, FALSE)
              /\ UNCHANGED no_peer_at_submit
    /\ UNCHANGED <<max_attempts, peers, peer_order, reputation, completed,
                   renter_buffer, outcome_log>>
    /\ stream_call' = NoCall
    /\ UNCHANGED deadline_passed
    /\ UNCHANGED not_poc_vars

\* PeerAgent.process_task resuming after the overload sleep (peer.py:60-73).
process_task_enter(t) ==
    /\ pc[t] = "wait"
    /\ EnterExecution(t, cur_peer[t])
    /\ UNCHANGED <<max_attempts, peers, peer_order, reputation, pending, completed,
                   renter_buffer, attempts, cur_peer, in_failover, attempt_log,
                   outcome_log, no_peer_at_submit>>
    /\ stream_call' = NoCall
    /\ UNCHANGED deadline_passed
    /\ UNCHANGED not_poc_vars

\* Task.payload of task t, as a sequence of bytes.
TaskPayload(t) == <<t, t + 10>>

\* payload[::-1].
Reversed(b) == [i \in 1..Len(b) |-> b[Len(b) + 1 - i]]

\* The Result process_task returns (peer.py:77-92).
ResultOf(t, p, ok) ==
    [task_id |-> t,
     status  |-> IF ok THEN "success" ELSE "failure",
     output  |-> IF ok THEN Reversed(TaskPayload(t)) ELSE << >>,
     peer_id |-> p,
     error   |-> IF ok THEN "None" ELSE "peer_error"]

\* The reputation steps, in hundredths: schedule_task rewards 0.02 and fines
\* 0.05 (coordinator.py:96-107), handle_failover rewards 0.01 and fines 0.08
\* (coordinator.py:149-161).
\* A wrong form of Reward: a reward of 0.03.
Reward_TooBig(failover) == 3

Reward(failover) == IF failover THEN 1 ELSE 2
Penalty(failover) == IF failover THEN 8 ELSE 5

\* Two wrong forms of the test below: off by one, and never retrying.
Exhausted_OffByOne(t) == attempts[t] > max_attempts
Exhausted_NeverRetry(t) == TRUE

\* handle_failover's first test (coordinator.py:131): no further attempt.
Exhausted(t) == attempts[t] >= max_attempts

\* A wrong form of PendingAfterSuccess: the task stays in pending.
PendingAfterSuccess_Kept(t) == pending

\* self.pending.pop(task.task_id, None) after a success (coordinator.py:94, 148).
PendingAfterSuccess(t) == pending \ {t}

\* process_task returns (peer.py:73-95) and its caller runs on to its next
\* await or to the return of schedule_task: coordinator.py:92-116 when the
\* attempt was schedule_task's own, coordinator.py:146-166 and then 112-116
\* when it was handle_failover's.
process_task_return(t) ==
    /\ pc[t] = "exec"
    /\ LET p == cur_peer[t]
           res == ResultOf(t, p, success[t])
       IN  /\ in_flight' = [in_flight EXCEPT ![p] = @ - 1]
           /\ outcome_log' = [outcome_log EXCEPT ![t] = Append(@, success[t])]
           /\ IF success[t]
              THEN /\ completed' = (t :> res) @@ completed
                   /\ pending' = PendingAfterSuccess(t)
                   /\ reputation' = [reputation EXCEPT
                          ![p] = Min(100, @ + Reward(in_failover[t]))]
                   /\ renter_buffer' = Append(renter_buffer, res)
                   /\ pc' = [pc EXCEPT ![t] = "done"]
              ELSE /\ reputation' = [reputation EXCEPT
                          ![p] = Max(0, @ - Penalty(in_failover[t]))]
                   /\ IF Exhausted(t)
                      THEN \* handle_failover returns False; schedule_task pops the task
                           /\ pending' = pending \ {t}
                           /\ pc' = [pc EXCEPT ![t] = "done"]
                      ELSE \* handle_failover awaits its backoff sleep
                           /\ pc' = [pc EXCEPT ![t] = "backoff"]
                           /\ UNCHANGED pending
                   /\ UNCHANGED <<completed, renter_buffer>>
    /\ UNCHANGED <<max_attempts, peers, peer_order, attempts, cur_peer, in_failover,
                   success, attempt_log, no_peer_at_submit>>
    /\ stream_call' = NoCall
    /\ UNCHANGED deadline_passed
    /\ UNCHANGED not_poc_vars

\* Coordinator.handle_failover after its backoff sleep, up to the await of the
\* next process_task (coordinator.py:135-144).
handle_failover(t) ==
    /\ pc[t] = "backoff"
    /\ attempts' = [attempts EXCEPT ![t] = @ + 1]
    /\ \E jit \in [DOMAIN peers -> HeartbeatJitter] :
         LET peer == pick_peer(jit) IN
         IF peer = None
         THEN \* returns False (coordinator.py:137-138); schedule_task pops the task
              /\ pc' = [pc EXCEPT ![t] = "done"]
              /\ pending' = pending \ {t}
              /\ UNCHANGED <<cur_peer, in_failover, attempt_log, in_flight, success>>
         ELSE /\ StartProcess(t, peer, TRUE)
              /\ UNCHANGED pending
    /\ UNCHANGED <<max_attempts, peers, peer_order, reputation, completed,
                   renter_buffer, outcome_log, no_peer_at_submit>>
    /\ stream_call' = NoCall
    /\ UNCHANGED deadline_passed
    /\ UNCHANGED not_poc_vars

\* The frame_order lists assemble_stream is called with: empty, two ids
\* against the order of scheduling, an id repeated, and an id that was never
\* a task (3) between two others.
FrameOrders == {<< >>, <<2, 1>>, <<1, 1>>, <<1, 3, 2>>}

RECURSIVE OrderedOutputs(_)
\* assemble_stream's loop (coordinator.py:178-185): the list `ordered`.
OrderedOutputs(frame_order) ==
    IF frame_order = << >> THEN << >>
    ELSE LET tid == frame_order[Len(frame_order)]
             before == OrderedOutputs(SubSeq(frame_order, 1, Len(frame_order) - 1))
         IN  IF tid \in DOMAIN completed /\ completed[tid].status = "success"
             THEN Append(before, completed[tid].output)
             ELSE before

RECURSIVE Join(_)
\* b"".join(parts).
Join(parts) ==
    IF parts = << >> THEN << >> ELSE Head(parts) \o Join(Tail(parts))

\* A wrong form of assemble_stream: the outputs in order of completion.
assemble_stream_AsCompleted(frame_order) ==
    Join([i \in 1..Len(renter_buffer) |->
             IF renter_buffer[i].task_id \in Range(frame_order)
             THEN renter_buffer[i].output ELSE << >>])

\* Coordinator.assemble_stream (coordinator.py:168-191): the stream returned.
assemble_stream(frame_order) == Join(OrderedOutputs(frame_order))

\* A call of Coordinator.assemble_stream(frame_order), made as the callers
\* in the repository make it: while no schedule_task call is in progress
\* (examples/p2c2r_POC.py:159, after the gather of the schedule_task calls;
\* tests/test_coordinator.py:138).
call_assemble_stream(frame_order) ==
    /\ \A t \in PocTaskIds : pc[t] \in {"new", "done"}
    /\ stream_call' = [called |-> TRUE, frame_order |-> frame_order,
                       stream |-> assemble_stream(frame_order)]
    /\ UNCHANGED <<max_attempts, peers, peer_order, reputation, pending,
                   completed, renter_buffer, in_flight, attempts, pc, cur_peer,
                   in_failover, success, attempt_log, outcome_log,
                   no_peer_at_submit, deadline_passed>>
    /\ UNCHANGED not_poc_vars

\* Time passes while a schedule_task call is suspended in one of its awaits
\* (the overload sleep and the simulated execution of process_task,
\* peer.py:60-73; the backoff sleep, coordinator.py:134) until every task,
\* all created together as in examples/p2c2r_POC.py:84-106, is older than
\* its deadline_ms, which may be any number of milliseconds.
deadline_passes ==
    /\ \E t \in PocTaskIds : pc[t] \in {"wait", "exec", "backoff"}
    /\ ~deadline_passed
    /\ deadline_passed' = TRUE
    /\ UNCHANGED <<max_attempts, peers, peer_order, reputation, pending,
                   completed, renter_buffer, in_flight, attempts, pc, cur_peer,
                   in_failover, success, attempt_log, outcome_log,
                   no_peer_at_submit>>
    /\ stream_call' = NoCall
    /\ UNCHANGED not_poc_vars

NextPoC ==
    \/ \E frame_order \in FrameOrders : call_assemble_stream(frame_order)
    \/ deadline_passes
    \/ \E p \in PocPeerIds : register_peer(p)
    \/ \E t \in PocTaskIds : schedule_task(t)
    \/ \E t \in PocTaskIds : process_task_enter(t)
    \/ \E t \in PocTaskIds : process_task_return(t)
    \/ \E t \in PocTaskIds : handle_failover(t)

(***************************************************************************)
(* Claims about the PoC Coordinator                                        *)
(***************************************************************************)

\* The attempts of task t so far all failed, and there were n of them.
AllFailed(t, n) ==
    /\ Len(outcome_log[t]) = n
    /\ \A i \in 1..n : ~outcome_log[t][i]

\* C3: with max_attempts >= 1, the attempts of a task passed once to
\* schedule_task with attempts = 0 never exceed max_attempts.
C3_AttemptBound ==
    \A t \in PocTaskIds : attempts[t] <= max_attempts

\* C3 witness: a task went through failover to its last permitted attempt.
C3_Witness ==
    \E t \in PocTaskIds :
        /\ max_attempts >= 2
        /\ pc[t] = "done"
        /\ attempts[t] = max_attempts
        /\ AllFailed(t, max_attempts)

\* C4: when an attempt of a task fails on peer P and another peer is
\* registered, the next attempt of that task is not assigned to P.
C4_NoSelfRetry ==
    \A t \in PocTaskIds :
        \A i \in 2..Len(attempt_log[t]) :
            attempt_log[t][i].registered >= 2
                => attempt_log[t][i].peer # attempt_log[t][i - 1].peer

\* C5: with a peer registered and max_attempts >= 1, schedule_task makes at
\* most max_attempts process_task calls for its task, a suspended call can
\* always take its next step, and on return the task is in completed with
\* status success or its attempts equal max_attempts.
C5_ScheduleTerminates ==
    \A t \in PocTaskIds :
        /\ Len(attempt_log[t]) <= max_attempts
        /\ pc[t] = "wait" => ENABLED process_task_enter(t)
        /\ pc[t] = "exec" => ENABLED process_task_return(t)
        /\ pc[t] = "backoff" => ENABLED handle_failover(t)
        /\ (pc[t] = "done" /\ ~no_peer_at_submit[t])
              => \/ /\ t \in DOMAIN completed
                    /\ completed[t].status = "success"
                 \/ attempts[t] = max_attempts

\* C5 witness: a call returned after a failover that succeeded before the
\* attempts ran out, and another returned with every attempt failed.
C5_Witness ==
    /\ \E t \in PocTaskIds :
          /\ pc[t] = "done"
          /\ t \in DOMAIN completed
          /\ Len(attempt_log[t]) = 2
          /\ attempts[t] < max_attempts
    /\ \E t \in PocTaskIds :
          /\ pc[t] = "done"
          /\ t \notin DOMAIN completed
          /\ AllFailed(t, max_attempts)

\* C7: a task whose every attempt failed until attempts reached max_attempts
\* ends recorded as failed with reason exhausted_attempts, and that failure
\* is delivered to the renter.
C7_ExhaustionRecorded ==
    \A t \in PocTaskIds :
        (pc[t] = "done" /\ attempts[t] = max_attempts /\ AllFailed(t, max_attempts))
            => /\ t \in DOMAIN completed
               /\ completed[t].status = "failure"
               /\ completed[t].error = "exhausted_attempts"
               /\ \E i \in 1..Len(renter_buffer) : renter_buffer[i].task_id = t

\* C8: schedule_task with no peer registered ends the task in terminal failure
\* with reason no_peers, and the task is not left in pending.
C8_NoPeersFails ==
    \A t \in PocTaskIds :
        (pc[t] = "done" /\ no_peer_at_submit[t])
            => /\ t \notin pending
               /\ t \in DOMAIN completed
               /\ completed[t].status = "failure"
               /\ completed[t].error = "no_peers"


\* C12: a PeerAgent's in_flight never exceeds its max_throughput, for any
\* number of concurrent schedule_task calls.
C12_InFlightWithinThroughput ==
    \A p \in DOMAIN peers : in_flight[p] <= peers[p].max_throughput

C25_PickPeerMinimal ==
    \A jit \in [DOMAIN peers -> HeartbeatJitter] :
        LET peer == pick_peer(jit)
        IN  /\ (peer = None) <=> (DOMAIN peers = {})
            /\ peer # None =>
                  /\ peer \in DOMAIN peers
                  /\ \A q \in DOMAIN peers :
                        PeerCost(peer, jit[peer]) <= PeerCost(q, jit[q])

\* C25 witness: two peers are registered, one of them is executing a task,
\* and under some telemetry pick_peer returns the peer registered second.
C25_Witness ==
    /\ Len(peer_order) >= 2
    /\ \E p \in DOMAIN peers : in_flight[p] > 0
    /\ \E jit \in [DOMAIN peers -> HeartbeatJitter] :
          pick_peer(jit) = peer_order[2]

\* What task id tid contributes to the stream: its output when it is in
\* completed with status success, nothing otherwise.
Contribution(tid) ==
    IF tid \in DOMAIN completed /\ completed[tid].status = "success"
    THEN completed[tid].output ELSE << >>

RECURSIVE ConcatInOrder(_)
ConcatInOrder(frame_order) ==
    IF frame_order = << >> THEN << >>
    ELSE Contribution(Head(frame_order)) \o ConcatInOrder(Tail(frame_order))

\* C26: assemble_stream returns exactly the concatenation, in frame_order
\* order, of the outputs of the task ids that are in completed with status
\* success; absent or unsuccessful ids contribute nothing; and the call
\* changes no coordinator state.
C26_AssembleInOrder ==
    [][stream_call'.called =>
          /\ stream_call'.stream = ConcatInOrder(stream_call'.frame_order)
          /\ UNCHANGED <<max_attempts, peers, peer_order, reputation, pending,
                         completed, renter_buffer, in_flight, attempts>>]_vars

\* C26 witness: task 2 succeeded before task 1 did, and assemble_stream was
\* called with task 1, an unknown id and task 2, in that order.
C26_Witness ==
    /\ stream_call.called
    /\ stream_call.frame_order = <<1, 3, 2>>
    /\ Len(renter_buffer) = 2
    /\ renter_buffer[1].task_id = 2
    /\ stream_call.stream = completed[1].output \o completed[2].output

\* The positions of renter_buffer that hold a result of task t.
BufferedAt(buf, t) == {i \in 1..Len(buf) : buf[i].task_id = t}

\* C30: whenever an attempt of a task succeeds (first attempt or failover),
\* the task is removed from pending and recorded in completed in one step
\* and exactly one result for it is appended to renter_buffer; no task_id is
\* ever in both pending and completed, whatever the interleaving of the
\* schedule_task calls.
C30_SuccessRecordedOnce ==
    [][/\ \A t \in PocTaskIds :
             (/\ Len(outcome_log'[t]) = Len(outcome_log[t]) + 1
              /\ outcome_log'[t][Len(outcome_log'[t])])
                 => /\ t \in pending /\ t \notin pending'
                    /\ t \notin DOMAIN completed /\ t \in DOMAIN completed'
                    /\ completed'[t].status = "success"
                    /\ renter_buffer' = Append(renter_buffer, completed'[t])
       /\ pending' \cap DOMAIN completed' = {}
       /\ \A t \in DOMAIN completed' :
             Cardinality(BufferedAt(renter_buffer', t)) = 1]_vars

\* C30 witness: both tasks are completed, one by its first attempt and one
\* by a failover attempt that ran while the other task was still pending.
C30_Witness ==
    /\ DOMAIN completed = PocTaskIds
    /\ \E t, u \in PocTaskIds :
          /\ Len(outcome_log[t]) = 1
          /\ Len(outcome_log[u]) >= 2
          /\ renter_buffer[1].task_id = u

\* C31: a failed task is re-assigned only while its deadline has not
\* elapsed: once the time since the task's creation has reached deadline_ms,
\* handle_failover starts no further process_task call for it, even if
\* attempts < max_attempts.
C31_NoFailoverAfterDeadline ==
    [][\A t \in PocTaskIds :
          (deadline_passed /\ handle_failover(t))
             => attempt_log'[t] = attempt_log[t]]_vars

(***************************************************************************)
(* Network CloudCoordinator                                                *)
(*                                                                         *)
(* handle_connection handles the messages of one connection one at a time, *)
(* so a connection has at most one handler suspended.  An await whose      *)
(* continuation changes no coordinator state (the registration acks, the   *)
(* task_assignment send, the peer-count broadcast of register_peer and     *)
(* handle_disconnect, whose errors handle_message swallows) is folded into *)
(* the action before it.  The awaits kept are the sends of                 *)
(* handle_task_result and handle_task_failure, which are followed by       *)
(* `del pending_tasks[task_id]`, and the broadcast inside monitor_peers'   *)
(* deletion loop.                                                          *)
(*                                                                         *)
(* time.time() - last_heartbeat > 30 is kept as the flag `stale`.          *)
(* avg_completion_time is 0 until a result arrives and then a value of     *)
(* AvgTimes: the measured completion times are the environment's.          *)
(***************************************************************************)
AvgTimes == {1}

InitNet ==
    /\ cc_peers = << >>
    /\ cc_peer_order = << >>
    /\ cc_users = << >>
    /\ cc_pending_tasks = << >>
    /\ conn_open = [c \in NetConns |-> TRUE]
    /\ user_open = [u \in NetUsers |-> TRUE]
    /\ h_pc = [c \in NetConns |-> "idle"]
    /\ h_task = [c \in NetConns |-> None]
    /\ mon_pc = "sleep"
    /\ mon_dead = << >>
    /\ mon_bsize = 0
    /\ mon_sent = 0
    /\ requested = {}
    /\ net_events = 0
    /\ uc_pending_tasks = [u \in NetUsers |-> {}]
    /\ uc_inbox = [u \in NetUsers |-> << >>]
    /\ terminal_msgs = [tk \in NetTasks |-> 0]

\* One more input from outside: a message, a closed connection, a heartbeat
\* deadline.
NetEvent ==
    /\ net_events < MaxNetEvents
    /\ net_events' = net_events + 1

\* A function without the key k (Python's `del d[k]`).
Without(f, k) == [x \in (DOMAIN f) \ {k} |-> f[x]]

\* A sequence without the element e.
SeqWithout(q, e) == SelectSeq(q, LAMBDA x : x # e)

\* PeerInfo as register_peer builds it (cloud_coordinator.py:146-153).
NewPeerInfo(c) ==
    [websocket |-> c, status |-> "idle", current_task |-> None,
     tasks_completed |-> 0, tasks_failed |-> 0, avg_completion_time |-> 0,
     stale |-> FALSE]

\* CloudCoordinator.register_peer (cloud_coordinator.py:141-170), message
\* register_peer{peer_id: p} on the connection of peer p.
cc_register_peer(p) ==
    /\ conn_open[p] /\ h_pc[p] = "idle"
    /\ cc_peers' = (p :> NewPeerInfo(p)) @@ cc_peers
    /\ cc_peer_order' = IF p \in DOMAIN cc_peers THEN cc_peer_order
                        ELSE Append(cc_peer_order, p)
    /\ UNCHANGED <<cc_users, cc_pending_tasks, conn_open, user_open, h_pc, h_task,
                   mon_pc, mon_dead, mon_bsize, mon_sent, requested, terminal_msgs>>
    /\ NetEvent
    /\ UNCHANGED <<uc_vars, not_net_vars>>

\* CloudCoordinator.register_user (cloud_coordinator.py:172-189).
cc_register_user(u) ==
    /\ user_open[u]
    /\ cc_users' = (u :> u) @@ cc_users
    /\ UNCHANGED <<cc_peers, cc_peer_order, cc_pending_tasks, conn_open, user_open,
                   h_pc, h_task, mon_pc, mon_dead, mon_bsize, mon_sent, requested,
                   terminal_msgs>>
    /\ NetEvent
    /\ UNCHANGED <<uc_vars, not_net_vars>>

\* Thirty seconds pass without a heartbeat of peer p.
heartbeat_expires(p) ==
    /\ p \in DOMAIN cc_peers
    /\ ~cc_peers[p].stale
    /\ cc_peers' = [cc_peers EXCEPT ![p].stale = TRUE]
    /\ UNCHANGED <<cc_peer_order, cc_users, cc_pending_tasks, conn_open, user_open,
                   h_pc, h_task, mon_pc, mon_dead, mon_bsize, mon_sent, requested,
                   terminal_msgs>>
    /\ NetEvent
    /\ UNCHANGED <<uc_vars, not_net_vars>>

\* CloudCoordinator.handle_heartbeat (cloud_coordinator.py:191-196).
handle_heartbeat(p) ==
    /\ conn_open[p] /\ h_pc[p] = "idle"
    /\ p \in DOMAIN cc_peers
    /\ cc_peers' = [cc_peers EXCEPT ![p].stale = FALSE]
    /\ UNCHANGED <<cc_peer_order, cc_users, cc_pending_tasks, conn_open, user_open,
                   h_pc, h_task, mon_pc, mon_dead, mon_bsize, mon_sent, requested,
                   terminal_msgs>>
    /\ NetEvent
    /\ UNCHANGED <<uc_vars, not_net_vars>>

\* The key select_best_peer sorts by (cloud_coordinator.py:342).
SelectKey(p) ==
    IF cc_peers[p].avg_completion_time > 0 THEN cc_peers[p].avg_completion_time
    ELSE 999

\* CloudCoordinator.select_best_peer (cloud_coordinator.py:334-342): the first
\* idle peer, in dict order, of least key; None when no peer is idle.
select_best_peer ==
    LET idle == SelectSeq(cc_peer_order, LAMBDA p : cc_peers[p].status = "idle")
    IN  IF idle = << >> THEN None
        ELSE idle[CHOOSE i \in 1..Len(idle) :
                    \A k \in 1..Len(idle) :
                        \/ SelectKey(idle[i]) < SelectKey(idle[k])
                        \/ SelectKey(idle[i]) = SelectKey(idle[k]) /\ i <= k]

\* terminal_msgs after the send of a task_result or task_error for task tk on
\* user_ws: a send on a closed connection raises and reaches nobody.
Sent(tk, user_ws) ==
    IF user_open[user_ws] THEN [terminal_msgs EXCEPT ![tk] = @ + 1]
    ELSE terminal_msgs

\* uc_inbox after the send of a message of type msg_type about task tk on
\* user_ws (user_ws.send(msg.to_json())): it reaches the UserClient of that
\* connection unless the connection is closed.
Delivered(msg_type, tk, user_ws) ==
    IF user_open[user_ws]
    THEN [uc_inbox EXCEPT ![user_ws] =
             Append(@, [msg_type |-> msg_type, task_id |-> tk])]
    ELSE uc_inbox

\* CloudCoordinator.handle_task_request (cloud_coordinator.py:198-246),
\* message task_request{task_id: tk} on the connection of user u.  The
\* UserClient put tk into its pending_tasks before sending the request
\* (UserClient.submit_task, user_client.py:190-199).
handle_task_request(u, tk) ==
    /\ user_open[u]
    /\ tk \notin requested
    /\ requested' = requested \cup {tk}
    /\ LET best_peer == select_best_peer IN
       IF best_peer # None
       THEN /\ cc_peers' = [cc_peers EXCEPT ![best_peer].status = "busy",
                                            ![best_peer].current_task = tk]
            /\ cc_pending_tasks' =
                   (tk :> [user_ws |-> u, peer_id |-> best_peer]) @@ cc_pending_tasks
            /\ UNCHANGED <<terminal_msgs, uc_inbox>>
       ELSE /\ terminal_msgs' = Sent(tk, u)
            /\ uc_inbox' = Delivered("task_error", tk, u)
            /\ UNCHANGED <<cc_peers, cc_pending_tasks>>
    /\ UNCHANGED <<cc_peer_order, cc_users, conn_open, user_open, h_pc, h_task,
                   mon_pc, mon_dead, mon_bsize, mon_sent>>
    /\ NetEvent
    /\ uc_pending_tasks' = [uc_pending_tasks EXCEPT ![u] = @ \cup {tk}]
    /\ UNCHANGED not_net_vars

\* CloudCoordinator.handle_task_result up to the await of the send to the user
\* (cloud_coordinator.py:248-290), message task_result{task_id: tk, peer_id: p}
\* on the connection of peer p.  An unknown task returns at once; an unknown peer_id
\* raises KeyError at line 262, which handle_message swallows.
handle_task_result(tk, p) ==
    /\ conn_open[p] /\ h_pc[p] = "idle"
    /\ tk \in DOMAIN cc_pending_tasks
    /\ p \in DOMAIN cc_peers
    /\ \E avg \in AvgTimes :
         cc_peers' = [cc_peers EXCEPT ![p].status = "idle",
                                      ![p].current_task = None,
                                      ![p].tasks_completed = @ + 1,
                                      ![p].avg_completion_time = avg]
    /\ terminal_msgs' = Sent(tk, cc_pending_tasks[tk].user_ws)
    /\ uc_inbox' = Delivered("task_result", tk, cc_pending_tasks[tk].user_ws)
    /\ h_pc' = [h_pc EXCEPT ![p] = "result_send"]
    /\ h_task' = [h_task EXCEPT ![p] = tk]
    /\ UNCHANGED <<cc_peer_order, cc_users, cc_pending_tasks, conn_open, user_open,
                   mon_pc, mon_dead, mon_bsize, mon_sent, requested>>
    /\ NetEvent
    /\ UNCHANGED <<uc_pending_tasks, not_net_vars>>

\* A wrong form of FailedPeer: the peer is idle again but keeps its task.
FailedPeer_KeepsTask(info) ==
    [info EXCEPT !.status = "idle", !.tasks_failed = @ + 1]

\* The PeerInfo of a peer that reported a failure (cloud_coordinator.py:306-309).
FailedPeer(info) ==
    [info EXCEPT !.status = "idle", !.current_task = None, !.tasks_failed = @ + 1]

\* CloudCoordinator.handle_task_failure up to the await of the send to the
\* user (cloud_coordinator.py:297-328); it returns at once when the task is
\* not pending.
handle_task_failure(tk, p) ==
    /\ conn_open[p] /\ h_pc[p] = "idle"
    /\ cc_peers' = IF p \in DOMAIN cc_peers
                   THEN [cc_peers EXCEPT ![p] = FailedPeer(@)]
                   ELSE cc_peers
    /\ IF tk \in DOMAIN cc_pending_tasks
       THEN /\ terminal_msgs' = Sent(tk, cc_pending_tasks[tk].user_ws)
            /\ uc_inbox' = Delivered("task_error", tk,
                                     cc_pending_tasks[tk].user_ws)
            /\ h_pc' = [h_pc EXCEPT ![p] = "failure_send"]
            /\ h_task' = [h_task EXCEPT ![p] = tk]
       ELSE UNCHANGED <<terminal_msgs, h_pc, h_task, uc_inbox>>
    /\ UNCHANGED <<cc_peer_order, cc_users, cc_pending_tasks, conn_open, user_open,
                   mon_pc, mon_dead, mon_bsize, mon_sent, requested>>
    /\ NetEvent
    /\ UNCHANGED <<uc_pending_tasks, not_net_vars>>

\* handle_task_result and handle_task_failure after the send:
\* `del self.pending_tasks[task_id]` (cloud_coordinator.py:295, 332), a
\* KeyError that handle_message swallows when the entry is gone already.
handle_task_cleanup(c) ==
    /\ h_pc[c] \in {"result_send", "failure_send"}
    /\ cc_pending_tasks' = Without(cc_pending_tasks, h_task[c])
    /\ h_pc' = [h_pc EXCEPT ![c] = "idle"]
    /\ h_task' = [h_task EXCEPT ![c] = None]
    /\ UNCHANGED <<cc_peers, cc_peer_order, cc_users, conn_open, user_open,
                   mon_pc, mon_dead, mon_bsize, mon_sent, requested, terminal_msgs>>
    /\ UNCHANGED <<net_events, uc_vars, not_net_vars>>

\* CloudCoordinator.handle_disconnect for a peer connection
\* (cloud_coordinator.py:344-352): the first peer, in dict order, registered
\* on the closed connection is deleted.
handle_disconnect(c) ==
    /\ conn_open[c] /\ h_pc[c] = "idle"
    /\ conn_open' = [conn_open EXCEPT ![c] = FALSE]
    /\ LET mine == SelectSeq(cc_peer_order, LAMBDA p : cc_peers[p].websocket = c)
       IN  IF mine = << >>
           THEN UNCHANGED <<cc_peers, cc_peer_order>>
           ELSE /\ cc_peers' = Without(cc_peers, mine[1])
                /\ cc_peer_order' = SeqWithout(cc_peer_order, mine[1])
    /\ UNCHANGED <<cc_users, cc_pending_tasks, user_open, h_pc, h_task,
                   mon_pc, mon_dead, mon_bsize, mon_sent, requested, terminal_msgs>>
    /\ NetEvent
    /\ UNCHANGED <<uc_vars, not_net_vars>>

\* CloudCoordinator.handle_disconnect for a user connection
\* (cloud_coordinator.py:354-359).
handle_user_disconnect(u) ==
    /\ user_open[u]
    /\ user_open' = [user_open EXCEPT ![u] = FALSE]
    /\ cc_users' = Without(cc_users, u)
    /\ UNCHANGED <<cc_peers, cc_peer_order, cc_pending_tasks, conn_open, h_pc, h_task,
                   mon_pc, mon_dead, mon_bsize, mon_sent, requested, terminal_msgs>>
    /\ NetEvent
    /\ UNCHANGED <<uc_vars, not_net_vars>>

\* monitor_peers waking from its sleep (cloud_coordinator.py:364-376): it
\* lists the stale peers and starts deleting them.  broadcast_peer_count
\* awaits once per user, so with no user registered the whole loop runs
\* without a break; otherwise the monitor is suspended after the first
\* deletion.
monitor_peers ==
    /\ mon_pc = "sleep"
    /\ LET dead_peers == SelectSeq(cc_peer_order, LAMBDA p : cc_peers[p].stale)
       IN  /\ dead_peers # << >>
           /\ IF DOMAIN cc_users = {}
              THEN /\ cc_peers' = [p \in (DOMAIN cc_peers) \ Range(dead_peers)
                                     |-> cc_peers[p]]
                   /\ cc_peer_order' = SelectSeq(cc_peer_order,
                                          LAMBDA p : ~cc_peers[p].stale)
                   /\ UNCHANGED <<mon_pc, mon_dead, mon_bsize, mon_sent>>
              ELSE /\ cc_peers' = Without(cc_peers, dead_peers[1])
                   /\ cc_peer_order' = SeqWithout(cc_peer_order, dead_peers[1])
                   /\ mon_pc' = "bcast"
                   /\ mon_dead' = Tail(dead_peers)
                   /\ mon_bsize' = Cardinality(DOMAIN cc_users)
                   /\ mon_sent' = 1
    /\ UNCHANGED <<cc_users, cc_pending_tasks, conn_open, user_open, h_pc, h_task,
                   requested, terminal_msgs>>
    /\ UNCHANGED <<net_events, uc_vars, not_net_vars>>

\* monitor_peers resuming inside broadcast_peer_count's loop over
\* users.values() (cloud_coordinator.py:389-393, 373-376).  A users dict that
\* changed size makes the iteration raise RuntimeError; a dead peer that is
\* gone already makes `del self.peers[peer_id]` raise KeyError.  Nothing
\* catches either: the monitor task ends.
monitor_peers_resume ==
    /\ mon_pc = "bcast"
    /\ IF Cardinality(DOMAIN cc_users) # mon_bsize
       THEN /\ mon_pc' = "crashed"
            /\ UNCHANGED <<cc_peers, cc_peer_order, mon_dead, mon_bsize, mon_sent>>
       ELSE IF mon_sent < mon_bsize
       THEN /\ mon_sent' = mon_sent + 1
            /\ UNCHANGED <<cc_peers, cc_peer_order, mon_pc, mon_dead, mon_bsize>>
       ELSE IF mon_dead = << >>
       THEN /\ mon_pc' = "sleep"
            /\ mon_bsize' = 0
            /\ mon_sent' = 0
            /\ UNCHANGED <<cc_peers, cc_peer_order, mon_dead>>
       ELSE IF Head(mon_dead) \notin DOMAIN cc_peers
       THEN /\ mon_pc' = "crashed"
            /\ UNCHANGED <<cc_peers, cc_peer_order, mon_dead, mon_bsize, mon_sent>>
       ELSE /\ cc_peers' = Without(cc_peers, Head(mon_dead))
            /\ cc_peer_order' = SeqWithout(cc_peer_order, Head(mon_dead))
            /\ mon_dead' = Tail(mon_dead)
            /\ mon_sent' = 1
            /\ UNCHANGED <<mon_pc, mon_bsize>>
    /\ UNCHANGED <<cc_users, cc_pending_tasks, conn_open, user_open, h_pc, h_task,
                   requested, terminal_msgs>>
    /\ UNCHANGED <<net_events, uc_vars, not_net_vars>>

\* UserClient.handle_message for the oldest unhandled message of user u
\* (user_client.py:97-123): task_result goes to handle_task_result (125-143)
\* and task_failure to handle_task_failure (145-155), which both pop the
\* task from pending_tasks; any other msg_type is only logged.
uc_handle_message(u) ==
    /\ uc_inbox[u] # << >>
    /\ LET msg == Head(uc_inbox[u])
       IN  uc_pending_tasks' =
              IF msg.msg_type \in {"task_result", "task_failure"}
              THEN [uc_pending_tasks EXCEPT ![u] = @ \ {msg.task_id}]
              ELSE uc_pending_tasks
    /\ uc_inbox' = [uc_inbox EXCEPT ![u] = Tail(@)]
    /\ UNCHANGED <<net_vars, net_events, not_net_vars>>

NextNet ==
    \/ \E u \in NetUsers : uc_handle_message(u)
    \/ \E p \in NetPeerIds : cc_register_peer(p)
    \/ \E u \in NetUsers : cc_register_user(u)
    \/ \E p \in NetPeerIds : heartbeat_expires(p)
    \/ \E p \in NetPeerIds : handle_heartbeat(p)
    \/ \E u \in NetUsers, tk \in NetTasks : handle_task_request(u, tk)
    \/ \E tk \in NetTasks, p \in NetPeerIds : handle_task_result(tk, p)
    \/ \E tk \in NetTasks, p \in NetPeerIds : handle_task_failure(tk, p)
    \/ \E c \in NetConns : handle_task_cleanup(c)
    \/ \E c \in NetConns : handle_disconnect(c)
    \/ \E u \in NetUsers : handle_user_disconnect(u)
    \/ monitor_peers
    \/ monitor_peers_resume


(***************************************************************************)
(* Claims about the network CloudCoordinator                               *)
(***************************************************************************)

\* C1: for every task_id accepted by handle_task_request, the submitting user
\* is sent at most one terminal message (task_result or task_error), under
\* any interleaving of task_result and task_failure messages.
C1_UniqueTerminal ==
    \A tk \in NetTasks : terminal_msgs[tk] <= 1

\* C2: whenever a peer is removed from the registry while pending_tasks holds
\* a task assigned to it, the same action re-assigns the task to another
\* registered peer or removes it from pending_tasks with a terminal error
\* sent to its user.
C2_ReclaimOnRemoval ==
    [][\A p \in DOMAIN cc_peers : \A tk \in DOMAIN cc_pending_tasks :
          (p \notin DOMAIN cc_peers' /\ cc_pending_tasks[tk].peer_id = p)
              => \/ /\ tk \in DOMAIN cc_pending_tasks'
                    /\ cc_pending_tasks'[tk].peer_id # p
                    /\ cc_pending_tasks'[tk].peer_id \in DOMAIN cc_peers'
                 \/ /\ tk \notin DOMAIN cc_pending_tasks'
                    /\ \/ terminal_msgs'[tk] = terminal_msgs[tk] + 1
                       \/ ~user_open[cc_pending_tasks[tk].user_ws]]_vars

\* C6: a registered peer whose heartbeat stays stale is eventually removed by
\* the monitor_peers sweep, which keeps running for the coordinator's
\* lifetime: while a stale peer is registered, the sweep has not ended.
C6_SweepKeepsRunning ==
    \A p \in DOMAIN cc_peers : cc_peers[p].stale => mon_pc # "crashed"

\* C11: whenever control is yielded, each registered peer has current_task
\* non-null if and only if its status is busy.
C11_TaskIffBusy ==
    \A p \in DOMAIN cc_peers :
        (cc_peers[p].current_task # None) <=> (cc_peers[p].status = "busy")

\* C11 witness: one peer is busy with a task while another, which reported a
\* failure, is idle again without one.
C11_Witness ==
    \E p, q \in DOMAIN cc_peers :
        /\ cc_peers[p].status = "busy"
        /\ cc_peers[p].current_task \in NetTasks
        /\ cc_peers[q].status = "idle"
        /\ cc_peers[q].tasks_failed > 0
        /\ cc_peers[q].current_task = None

\* C22: a register_peer message for a peer_id that is already registered on
\* the same connection is a no-op: the peer's status, current_task,
\* tasks_completed, tasks_failed and avg_completion_time are unchanged, also
\* when the peer is busy with a task.
C22_ReRegisterIsNoOp ==
    [][\A p \in NetPeerIds :
          (/\ p \in DOMAIN cc_peers
           /\ cc_peers[p].websocket = p
           /\ cc_register_peer(p))
              => /\ cc_peers'[p].status = cc_peers[p].status
                 /\ cc_peers'[p].current_task = cc_peers[p].current_task
                 /\ cc_peers'[p].tasks_completed = cc_peers[p].tasks_completed
                 /\ cc_peers'[p].tasks_failed = cc_peers[p].tasks_failed
                 /\ cc_peers'[p].avg_completion_time
                        = cc_peers[p].avg_completion_time]_vars

\* C32: when the coordinator reports a terminal failure of a task to its
\* submitter (no idle peer at submit time, or the assigned peer sent
\* task_failure), the UserClient removes the task from its pending_tasks on
\* receiving that message.
C32_FailureClearsPending ==
    [][\A u \in NetUsers :
          (/\ uc_handle_message(u)
           /\ Head(uc_inbox[u]).msg_type = "task_error")
             => Head(uc_inbox[u]).task_id \notin uc_pending_tasks'[u]]_vars

\* C36: monitor_peers removes only peers whose heartbeat is stale at the
\* moment of removal: a peer that sent a heartbeat or re-registered after the
\* sweep built its list of dead peers, but before its entry is deleted, is
\* not removed.
C36_RemovedOnlyIfStale ==
    [][(monitor_peers \/ monitor_peers_resume)
          => \A p \in (DOMAIN cc_peers) \ (DOMAIN cc_peers') : cc_peers[p].stale]_vars

(***************************************************************************)
(* FrameDistributor (src/network/frame_distributor.py).                    *)
(*                                                                         *)
(* A Frame object is a position in fd_frames; the queue and the two dicts  *)
(* hold positions, so that an object reachable from two containers is one  *)
(* object, as in the code.  asyncio.Queue.put suspends only while the      *)
(* queue is full; Queue.get is called only on a non-empty queue and never  *)
(* suspends.  A get wakes the oldest waiting putter, which re-checks       *)
(* full() when it runs and waits again if the queue has filled up.         *)
(* _fallback_process and the nested submit_result have no suspending       *)
(* await, so a timeout monitor's body is one action.                       *)
(* At most one unregister_peer call per peer is suspended at a time.       *)
(* stats['avg_processing_time'] and the time stamps are left out.          *)
(***************************************************************************)
\* No frame_result has been sent yet.
NoReply == [status |-> "none"]

InitFD(fallback) ==
    /\ fd_enable_fallback = fallback
    /\ fd_frames = << >>
    /\ fd_pending = << >>
    /\ fd_active = << >>
    /\ fd_completed = << >>
    /\ fd_available = << >>
    /\ fd_busy = << >>
    /\ fd_stats = [frames_received |-> 0, frames_completed |-> 0,
                   frames_failed |-> 0, frames_timeout |-> 0,
                   fallback_used |-> 0]
    /\ fd_putters = << >>
    /\ fd_woken = {}
    /\ fd_monitors = << >>
    /\ fd_accepted = {}
    /\ fd_discarded = None
    /\ fd_events = 0
    /\ fc_frame_to_gamer = << >>
    /\ fc_last_reply = NoReply

\* One more call on the distributor.
FdEvent ==
    /\ fd_events < MaxFdEvents
    /\ fd_events' = fd_events + 1

\* A function with key k set to v (Python's `d[k] = v`).
With(f, k, v) == [x \in (DOMAIN f) \cup {k} |-> IF x = k THEN v ELSE f[x]]

\* A list without the first occurrence of e (Python's `list.remove(e)`).
RemoveFirst(q, e) ==
    IF e \notin Range(q) THEN q
    ELSE LET i == CHOOSE j \in 1..Len(q) :
                      q[j] = e /\ \A k \in 1..(j - 1) : q[k] # e
         IN [k \in 1..(Len(q) - 1) |-> IF k < i THEN q[k] ELSE q[k + 1]]

\* Frame(frame_id, gamer_id, data, timestamp) (frame_distributor.py:26-37);
\* assignment counts how often distribute_frames assigned the frame (history).
NewFrame(frame_id, gamer_id) ==
    [frame_id |-> frame_id, gamer_id |-> gamer_id, data |-> "raw",
     status |-> "pending",
     assigned_peer |-> None, result_data |-> "None", assignment |-> 0]

\* asyncio.Queue.full() of pending_frames.
QueueFull == Len(fd_pending) >= MaxQueueSize

\* A coroutine suspended in pending_frames.put(frame).
Putter(kind, o, p) == [kind |-> kind, obj |-> o, peer |-> p]

\* The fields submit_result and the timeout monitor work on, as one record.
FdState ==
    [frames |-> fd_frames, active |-> fd_active, completed |-> fd_completed,
     available |-> fd_available, busy |-> fd_busy, stats |-> fd_stats]

SetFdState(s) ==
    /\ fd_frames' = s.frames
    /\ fd_active' = s.active
    /\ fd_completed' = s.completed
    /\ fd_available' = s.available
    /\ fd_busy' = s.busy
    /\ fd_stats' = s.stats

\* FrameDistributor._fallback_process: returns the original frame data.
fallback_process(frame_data) == frame_data

\* submit_result without the early return for an unknown frame: the sender
\* is taken out of busy_peers whatever frame it reports on.
SubmitResult_FreesPeer(s, frame_id, peer_id, result_data, ok) ==
    LET s1 == IF frame_id \notin DOMAIN s.active THEN s
              ELSE LET o == s.active[frame_id]
                   IN [s EXCEPT
                         !.frames[o].result_data = result_data,
                         !.frames[o].status = IF ok THEN "completed" ELSE "failed",
                         !.stats.frames_completed = IF ok THEN @ + 1 ELSE @,
                         !.stats.frames_failed = IF ok THEN @ ELSE @ + 1,
                         !.completed = With(@, frame_id, o),
                         !.active = Without(@, frame_id)]
    IN  IF peer_id \in DOMAIN s1.busy
        THEN [s1 EXCEPT !.busy = Without(@, peer_id),
                        !.available = Append(@, peer_id)]
        ELSE s1

\* FrameDistributor.submit_result (frame_distributor.py:244-291) applied to
\* the state s: the effect of the whole call.
SubmitResult(s, frame_id, peer_id, result_data, ok) ==
    IF frame_id \notin DOMAIN s.active THEN s
    ELSE LET o == s.active[frame_id]
             s1 == [s EXCEPT
                      !.frames[o].result_data = result_data,
                      !.frames[o].status = IF ok THEN "completed" ELSE "failed",
                      !.stats.frames_completed = IF ok THEN @ + 1 ELSE @,
                      !.stats.frames_failed = IF ok THEN @ ELSE @ + 1,
                      !.completed = With(@, frame_id, o),
                      !.active = Without(@, frame_id)]
         IN  IF peer_id \in DOMAIN s1.busy
             THEN [s1 EXCEPT !.busy = Without(@, peer_id),
                             !.available = Append(@, peer_id)]
             ELSE s1

\* Queue.get's _wakeup_next(self._putters): the oldest waiting putter is woken.
WakeNextPutter ==
    IF fd_putters = << >> THEN UNCHANGED <<fd_putters, fd_woken>>
    ELSE /\ fd_woken' = fd_woken \cup {Head(fd_putters)}
         /\ fd_putters' = Tail(fd_putters)

\* handle_gamer, the statement after submit_frame has returned the id of
\* the Frame object frame (frame_network.py:149-150).
FrameSubmitted(frame) ==
    /\ fc_frame_to_gamer' = With(fc_frame_to_gamer, frame.frame_id,
                                 frame.gamer_id)
    /\ UNCHANGED fc_last_reply

\* handle_gamer, frame_submit from gamer g (frame_network.py:143-150):
\* FrameDistributor.submit_frame (frame_distributor.py:98-124) up to its
\* return, or up to the suspension in put() when the queue is full.
fd_submit_frame(g) ==
    /\ Len(fd_frames) < MaxFrames
    /\ LET o == Len(fd_frames) + 1
       IN  /\ fd_frames' = Append(fd_frames, NewFrame(fd_stats.frames_received, g))
           /\ IF QueueFull
              THEN /\ fd_putters' = Append(fd_putters, Putter("submit_frame", o, None))
                   /\ UNCHANGED <<fd_pending, fd_stats, fd_accepted, fd_discarded, fc_vars>>
              ELSE /\ fd_pending' = Append(fd_pending, o)
                   /\ fd_stats' = [fd_stats EXCEPT !.frames_received = @ + 1]
                   /\ fd_accepted' = fd_accepted \cup {o}
                   /\ UNCHANGED fd_discarded
                   /\ FrameSubmitted(NewFrame(fd_stats.frames_received, g))
                   /\ UNCHANGED fd_putters
    /\ UNCHANGED <<fd_enable_fallback, fd_active, fd_completed, fd_available,
                   fd_busy, fd_woken, fd_monitors>>
    /\ FdEvent
    /\ UNCHANGED not_fd_vars

\* submit_frame woken in put() (frame_distributor.py:118-121).
fd_submit_frame_resume(w) ==
    /\ w \in fd_woken
    /\ w.kind = "submit_frame"
    /\ IF QueueFull
       THEN /\ fd_putters' = Append(fd_putters, w)
            /\ UNCHANGED <<fd_pending, fd_stats, fd_accepted, fd_discarded, fc_vars>>
       ELSE /\ fd_pending' = Append(fd_pending, w.obj)
            /\ fd_stats' = [fd_stats EXCEPT !.frames_received = @ + 1]
            /\ fd_accepted' = fd_accepted \cup {w.obj}
            /\ UNCHANGED fd_discarded
            /\ FrameSubmitted(fd_frames[w.obj])
            /\ UNCHANGED fd_putters
    /\ fd_woken' = fd_woken \ {w}
    /\ UNCHANGED <<fd_enable_fallback, fd_frames, fd_active, fd_completed,
                   fd_available, fd_busy, fd_monitors>>
    /\ UNCHANGED <<fd_events, not_fd_vars>>

\* FrameDistributor.register_peer (frame_distributor.py:151-155).
fd_register_peer(p) ==
    /\ fd_available' = IF p \notin Range(fd_available)
                       THEN Append(fd_available, p) ELSE fd_available
    /\ UNCHANGED <<fd_enable_fallback, fd_frames, fd_pending, fd_active,
                   fd_completed, fd_busy, fd_stats, fd_putters, fd_woken,
                   fd_monitors, fd_accepted, fd_discarded>>
    /\ FdEvent
    /\ UNCHANGED <<fc_vars, not_fd_vars>>

\* FrameDistributor.unregister_peer (frame_distributor.py:157-172) up to its
\* return, or up to the suspension in put() at line 170.
fd_unregister_peer(p) ==
    /\ \A w \in Range(fd_putters) \cup fd_woken : w.peer # p
    /\ fd_available' = RemoveFirst(fd_available, p)
    /\ IF p \in DOMAIN fd_busy
       THEN LET frame_id == fd_busy[p]
            IN  IF frame_id \in DOMAIN fd_active
                THEN IF QueueFull
                     THEN /\ fd_putters' = Append(fd_putters,
                                 Putter("unregister_peer", fd_active[frame_id], p))
                          /\ UNCHANGED <<fd_pending, fd_active, fd_busy>>
                     ELSE /\ fd_pending' = Append(fd_pending, fd_active[frame_id])
                          /\ fd_active' = Without(fd_active, frame_id)
                          /\ fd_busy' = Without(fd_busy, p)
                          /\ UNCHANGED fd_putters
                ELSE /\ fd_busy' = Without(fd_busy, p)
                     /\ UNCHANGED <<fd_pending, fd_active, fd_putters>>
       ELSE UNCHANGED <<fd_pending, fd_active, fd_busy, fd_putters>>
    /\ UNCHANGED <<fd_enable_fallback, fd_frames, fd_completed, fd_stats,
                   fd_woken, fd_monitors, fd_accepted, fd_discarded>>
    /\ FdEvent
    /\ UNCHANGED <<fc_vars, not_fd_vars>>

\* unregister_peer woken in put() (frame_distributor.py:170-172).  The two
\* del statements raise KeyError, ending the call, when their key is gone.
fd_unregister_peer_resume(w) ==
    /\ w \in fd_woken
    /\ w.kind = "unregister_peer"
    /\ fd_woken' = fd_woken \ {w}
    /\ IF QueueFull
       THEN /\ fd_putters' = Append(fd_putters, w)
            /\ UNCHANGED <<fd_pending, fd_active, fd_busy>>
       ELSE LET frame_id == fd_frames[w.obj].frame_id
            IN  /\ fd_pending' = Append(fd_pending, w.obj)
                /\ UNCHANGED fd_putters
                /\ IF frame_id \notin DOMAIN fd_active
                   THEN UNCHANGED <<fd_active, fd_busy>>
                   ELSE /\ fd_active' = Without(fd_active, frame_id)
                        /\ fd_busy' = IF w.peer \in DOMAIN fd_busy
                                      THEN Without(fd_busy, w.peer) ELSE fd_busy
    /\ UNCHANGED <<fd_enable_fallback, fd_frames, fd_completed, fd_available,
                   fd_stats, fd_monitors, fd_accepted, fd_discarded>>
    /\ UNCHANGED <<fd_events, fc_vars, not_fd_vars>>

\* One iteration of FrameDistributor.distribute_frames that finds a peer and
\* a frame (frame_distributor.py:181-202).
distribute_frames ==
    /\ fd_available # << >>
    /\ fd_pending # << >>
    /\ LET o == Head(fd_pending)
           peer_id == Head(fd_available)
           frame_id == fd_frames[o].frame_id
       IN  /\ fd_pending' = Tail(fd_pending)
           /\ WakeNextPutter
           /\ fd_available' = Tail(fd_available)
           /\ fd_frames' = [fd_frames EXCEPT ![o].status = "processing",
                                             ![o].assigned_peer = peer_id,
                                             ![o].assignment = @ + 1]
           /\ fd_active' = With(fd_active, frame_id, o)
           /\ fd_busy' = With(fd_busy, peer_id, frame_id)
           /\ fd_monitors' = Append(fd_monitors,
                  [frame_id |-> frame_id,
                   assignment |-> fd_frames[o].assignment + 1])
    /\ UNCHANGED <<fd_enable_fallback, fd_completed, fd_stats, fd_accepted, fd_discarded>>
    /\ UNCHANGED <<fd_events, fc_vars, not_fd_vars>>

\* FrameDistributor._monitor_frame_timeout after its sleep
\* (frame_distributor.py:211-233).  All monitors sleep peer_timeout, so they
\* wake in the order they were started.
monitor_frame_timeout ==
    /\ fd_monitors # << >>
    /\ fd_monitors' = Tail(fd_monitors)
    /\ LET frame_id == Head(fd_monitors).frame_id
       IN  IF /\ frame_id \in DOMAIN fd_active
              /\ fd_frames[fd_active[frame_id]].status = "processing"
           THEN LET o == fd_active[frame_id]
                    p == fd_frames[o].assigned_peer
                    s0 == [FdState EXCEPT !.frames[o].status = "timeout",
                                          !.stats.frames_timeout = @ + 1]
                    s1 == IF p \in DOMAIN s0.busy
                          THEN [s0 EXCEPT !.busy = Without(@, p),
                                          !.available = Append(@, p)]
                          ELSE s0
                    s2 == IF fd_enable_fallback
                          THEN [SubmitResult(s1, frame_id, p,
                                    fallback_process(fd_frames[o].data), TRUE)
                                  EXCEPT !.stats.fallback_used = @ + 1]
                          ELSE [s1 EXCEPT !.completed = With(@, frame_id, o),
                                          !.active = Without(@, frame_id)]
                IN  SetFdState(s2)
           ELSE UNCHANGED <<fd_frames, fd_active, fd_completed, fd_available,
                            fd_busy, fd_stats>>
    /\ UNCHANGED <<fd_enable_fallback, fd_pending, fd_putters, fd_woken,
                   fd_accepted, fd_discarded>>
    /\ UNCHANGED <<fd_events, fc_vars, not_fd_vars>>

\* A call of FrameDistributor.submit_result (frame_distributor.py:244-291)
\* by a peer, with any frame_id and any peer_id.
submit_result(frame_id, peer_id, ok) ==
    /\ SetFdState(SubmitResult(FdState, frame_id, peer_id, "processed", ok))
    /\ fd_discarded' = IF frame_id \notin DOMAIN fd_active THEN frame_id
                                                         ELSE fd_discarded
    /\ UNCHANGED <<fd_enable_fallback, fd_pending, fd_putters, fd_woken,
                   fd_monitors, fd_accepted>>
    /\ FdEvent
    /\ UNCHANGED <<fc_vars, not_fd_vars>>

\* base64.b64encode(data).decode('utf-8').
B64Encode(data) == [b64 |-> data]

\* FrameDistributor.get_frame_result (frame_distributor.py:126-149) at the
\* poll that decides it: the Frame object whose result_data it returns, or
\* None when the frame failed or the wait timed out.
GetFrameResult(frame_id) ==
    IF /\ frame_id \in DOMAIN fd_completed
       /\ fd_frames[fd_completed[frame_id]].status = "completed"
    THEN fd_completed[frame_id]
    ELSE None

\* handle_gamer, frame_request for frame_id on a connection registered as
\* gamer g (frame_network.py:161-183); several connections may be registered
\* under one gamer_id.  to and obj are history: the gamer the reply goes to
\* and the Frame object the data comes from.
fc_frame_request(g, frame_id) ==
    /\ LET o == GetFrameResult(frame_id)
       IN  fc_last_reply' =
              IF o # None /\ fd_frames[o].result_data # "None"
              THEN [status |-> "completed", frame_id |-> frame_id,
                    frame_data |-> B64Encode(fd_frames[o].result_data),
                    to |-> g, obj |-> o]
              ELSE [status |-> "failed", frame_id |-> frame_id, to |-> g]
    /\ UNCHANGED <<fc_frame_to_gamer, fd_vars, fd_events, not_fd_vars>>

NextFD ==
    \/ \E g \in FdGamerIds : fd_submit_frame(g)
    \/ \E g \in FdGamerIds, f \in FdFrameIds : fc_frame_request(g, f)
    \/ \E w \in fd_woken : fd_submit_frame_resume(w)
    \/ \E p \in FdPeerIds : fd_register_peer(p)
    \/ \E p \in FdPeerIds : fd_unregister_peer(p)
    \/ \E w \in fd_woken : fd_unregister_peer_resume(w)
    \/ distribute_frames
    \/ monitor_frame_timeout
    \/ \E f \in FdFrameIds, p \in FdPeerIds, ok \in BOOLEAN : submit_result(f, p, ok)

(***************************************************************************)
(* Claims about the FrameDistributor                                       *)
(***************************************************************************)
InPending(o) == o \in Range(fd_pending)
InActive(o) == \E k \in DOMAIN fd_active : fd_active[k] = o
InCompleted(o) == \E k \in DOMAIN fd_completed : fd_completed[k] = o

\* C9: every frame accepted by submit_frame is, whenever control is yielded,
\* in exactly one of pending_frames, active_frames and completed_frames.
C9_FrameInOnePlace ==
    \A o \in fd_accepted :
        /\ InPending(o) \/ InActive(o) \/ InCompleted(o)
        /\ ~(InPending(o) /\ InActive(o))
        /\ ~(InPending(o) /\ InCompleted(o))
        /\ ~(InActive(o) /\ InCompleted(o))

\* No call on the distributor is part-way through.
FdQuiescent == fd_putters = << >> /\ fd_woken = {}

\* C10: whenever no operation is part-way through, busy_peers and
\* active_frames correspond one-to-one: every active frame's assigned_peer is
\* a key of busy_peers mapped to that frame, and every busy_peers entry names
\* an active frame assigned to that peer.
C10_BusyMatchesActive ==
    FdQuiescent =>
        /\ \A k \in DOMAIN fd_active :
              LET p == fd_frames[fd_active[k]].assigned_peer
              IN  p \in DOMAIN fd_busy /\ fd_busy[p] = k
        /\ \A p \in DOMAIN fd_busy :
              /\ fd_busy[p] \in DOMAIN fd_active
              /\ fd_frames[fd_active[fd_busy[p]]].assigned_peer = p

\* C20: the processed result of a frame is returned only to the gamer that
\* submitted it: a frame_request from gamer G for a frame_id that another
\* gamer submitted never returns that frame's data to G.
C20_ResultOnlyToSubmitter ==
    fc_last_reply.status = "completed"
        => fd_frames[fc_last_reply.obj].gamer_id = fc_last_reply.to

\* C21: submit_frame called while pending_frames holds max_queue_size frames
\* returns -1 at once: the caller is never left waiting in put(), and the
\* frame is never enqueued afterwards.
C21_FullQueueRejects ==
    \A w \in Range(fd_putters) \cup fd_woken : w.kind # "submit_frame"

\* How often e occurs in the list q.
Count(q, e) == Cardinality({i \in 1..Len(q) : q[i] = e})

\* The timeout monitor at the head of fd_monitors wakes while the assignment
\* it was started for is still open: the frame is in active_frames under
\* that assignment and no result has been submitted for it.
TimeoutOfOpenAssignment ==
    /\ fd_monitors # << >>
    /\ fd_monitors' = Tail(fd_monitors)
    /\ Head(fd_monitors).frame_id \in DOMAIN fd_active
    /\ LET o == fd_active[Head(fd_monitors).frame_id]
       IN  /\ fd_frames[o].assignment = Head(fd_monitors).assignment
           /\ fd_frames[o].status = "processing"

\* C28: a frame assigned to a peer that never submits a result leaves
\* active_frames once peer_timeout has elapsed since the assignment: it
\* reaches completed_frames (COMPLETED through the fallback when
\* enable_fallback is set, otherwise TIMEOUT) and its peer is put back into
\* available_peers exactly once.
C28_TimeoutReclaims ==
    [][TimeoutOfOpenAssignment =>
          LET f == Head(fd_monitors).frame_id
              o == fd_active[f]
              p == fd_frames[o].assigned_peer
          IN  /\ f \notin DOMAIN fd_active'
              /\ f \in DOMAIN fd_completed' /\ fd_completed'[f] = o
              /\ fd_frames'[o].status =
                     IF fd_enable_fallback THEN "completed" ELSE "timeout"
              /\ p \notin DOMAIN fd_busy'
              /\ Count(fd_available', p) = 1]_vars

\* C29: a submit_result call for a frame_id that is not in active_frames
\* (already completed, timed out, or never assigned) changes nothing:
\* completed_frames, every Frame's status and result_data, the stats
\* counters, busy_peers and available_peers are as before the call.
C29_UnknownFrameDiscarded ==
    [][\A f \in FdFrameIds, p \in FdPeerIds, ok \in BOOLEAN :
          (f \notin DOMAIN fd_active /\ submit_result(f, p, ok))
             => UNCHANGED <<fd_completed, fd_frames, fd_stats, fd_busy,
                            fd_available>>]_vars

\* A result came in for a frame that was already in completed_frames, while
\* some peer was busy with another frame.
C29_Witness ==
    /\ fd_discarded # None
    /\ fd_discarded \in DOMAIN fd_completed
    /\ fd_discarded \notin DOMAIN fd_active
    /\ DOMAIN fd_busy # {}

\* C33: with enable_fallback set, a frame whose assigned peer fails, whether
\* by timing out or by reporting success = False, is completed by the local
\* fallback: in completed_frames its status is COMPLETED and its result_data
\* is not None.
C33_FallbackCompletes ==
    fd_enable_fallback =>
        \A f \in DOMAIN fd_completed :
            /\ fd_frames[fd_completed[f]].status = "completed"
            /\ fd_frames[fd_completed[f]].result_data # "None"

\* C37: no peer_id is at the same time in available_peers and in busy_peers,
\* and available_peers never holds the same peer_id twice.
C37_PeerPoolsDisjoint ==
    /\ \A p \in Range(fd_available) : p \notin DOMAIN fd_busy
    /\ \A i, j \in 1..Len(fd_available) :
          fd_available[i] = fd_available[j] => i = j

\* C38: a timeout monitor started for one assignment of a frame never ends
\* a later assignment of the same frame: an assignment is timed out only by
\* the monitor started when it was made.
C38_MonitorEndsOwnAssignment ==
    [][(/\ monitor_frame_timeout
        /\ Head(fd_monitors).frame_id \in DOMAIN fd_active
        /\ fd_frames[fd_active[Head(fd_monitors).frame_id]].status = "processing")
          => fd_frames[fd_active[Head(fd_monitors).frame_id]].assignment
                = Head(fd_monitors).assignment]_vars

\* C39: the frame ids submit_frame returns are unique: no two submit_frame
\* calls, including calls that overlap while the pending queue is full, are
\* given the same frame_id.
C39_FrameIdsUnique ==
    \A a, b \in fd_accepted :
        a # b => fd_frames[a].frame_id # fd_frames[b].frame_id

(***************************************************************************)
(* Multi-device demo (src/multi_device_demo): the CloudCoordinator of      *)
(* run_cloud.py with its CloudStorage, one GamerClient (run_gamer.py) and  *)
(* PeerNodes (run_peer.py).                                                *)
(*                                                                         *)
(* Connection MdGamerConn is the GamerClient's; the connections of         *)
(* MdPeerConns are PeerNodes, each registering under a peer_id of its      *)
(* choice (two connections may use the same one).  A connection registers  *)
(* once.  handle_client handles the messages of a connection one at a      *)
(* time; it is suspended only in the two sends that are followed by a      *)
(* state change: the execute_task send (run_cloud.py:121) and the result   *)
(* forward (run_cloud.py:175).                                             *)
(*                                                                         *)
(* A dict is a sequence of <<key, value>> pairs in insertion order; JSON   *)
(* text is the record [text |-> pairs in the order they are written].      *)
(* f"task_{id}_{ms}" is the tuple <<id, ms>>, and the GamerClient's        *)
(* f"task_{id}_{ms}_{n}" the tuple <<id, ms, n>>: the formatted strings    *)
(* are equal exactly when the tuples are.                                  *)
(* Money amounts and time stamps other than the clock are left out.        *)
(***************************************************************************)
MdGamerConn == 1
MdGamerId == 1
MdPeerConns == {2, 3}
MdPeerIds == {1, 2}
MdConns == {MdGamerConn} \cup MdPeerConns

\* The task_data dicts the gamer submits: one key, and two keys in either
\* insertion order.
MdTaskDatas ==
    { << <<1, 1>> >>, << <<1, 1>>, <<2, 1>> >>, << <<2, 1>>, <<1, 1>> >> }
MdTaskTypes == {"ai_npc_dialogue"}

\* The dict d as a key-to-value map.
AsMap(d) == Range(d)

\* json.dumps(d): the pairs in insertion order.
JsonDumps(d) == [text |-> d]

RECURSIVE SortedPairs(_)
\* The pairs of d in ascending key order.
SortedPairs(d) ==
    IF d = << >> THEN << >>
    ELSE LET m == CHOOSE x \in Range(d) : \A y \in Range(d) : x[1] <= y[1]
         IN  <<m>> \o SortedPairs(RemoveFirst(d, m))

\* json.dumps(d, sort_keys=True).
JsonDumpsSorted(d) == [text |-> SortedPairs(d)]

\* Python's None where a result or a cache entry is expected.
PyNone == [none |-> TRUE]

\* json.dumps of a result value (a dict, or None written as null) and
\* json.loads of the stored text.
JsonDumpsValue(v) == [text |-> v]
JsonLoadsValue(j) == j.text

\* What execute_task returns for a task: a dict that depends on the task's
\* content only.
ExecuteTask(task_type, task_data) ==
    [output |-> <<task_type, AsMap(task_data)>>]

InitMD ==
    /\ md_peers = << >>
    /\ md_peer_order = << >>
    /\ md_gamers = << >>
    /\ md_pending = << >>
    /\ md_tasks_routed = 0
    /\ md_h = [c \in MdConns |->
                 [client_id |-> None, client_type |-> "None", pc |-> "idle",
                  task_id |-> << >>, peer_id |-> None, gamer_id |-> None,
                  submit |-> None]]
    /\ md_now = 0
    /\ st_tasks = << >>
    /\ st_results = << >>
    /\ st_peers = << >>
    /\ st_gamers = << >>
    /\ gc_pending = {}
    /\ gc_submitted = 0
    /\ gc_connected = FALSE
    /\ md_exec = {}
    /\ md_delivered = << >>
    /\ md_events = 0

\* One more input from outside, or one more step of time.
MdEvent ==
    /\ md_events < MaxMdEvents
    /\ md_events' = md_events + 1

\* CloudStorage.store_task (cloud_storage.py:83-97): the INSERT fails on a
\* task_id that has a row already, and the error is swallowed.
StoreTask(tasks, task_id, gamer_id, task_type, task_data) ==
    IF task_id \in DOMAIN tasks THEN tasks
    ELSE With(tasks, task_id,
              [gamer_id |-> gamer_id, peer_id |-> None, task_type |-> task_type,
               task_data |-> JsonDumps(task_data), status |-> "pending"])

\* CloudStorage.assign_task_to_peer (cloud_storage.py:99-112).
AssignTaskToPeer(tasks, task_id, peer_id) ==
    IF task_id \in DOMAIN tasks
    THEN [tasks EXCEPT ![task_id].peer_id = peer_id, ![task_id].status = "assigned"]
    ELSE tasks

\* CloudStorage.store_result (cloud_storage.py:114-140): the new results row,
\* and the tasks table after the UPDATE.
ResultRow(task_id, result_data) ==
    [task_id |-> task_id, result_data |-> JsonDumpsValue(result_data),
     expired |-> FALSE]

CompleteTask(tasks, task_id) ==
    IF task_id \in DOMAIN tasks
    THEN [tasks EXCEPT ![task_id].status = "completed"]
    ELSE tasks

\* The rows get_cached_result's SELECT matches (cloud_storage.py:146-158),
\* as positions in st_results.
CacheRows(task_type, task_data) ==
    {i \in 1..Len(st_results) :
        /\ st_results[i].task_id \in DOMAIN st_tasks
        /\ st_tasks[st_results[i].task_id].task_type = task_type
        /\ st_tasks[st_results[i].task_id].task_data = JsonDumpsSorted(task_data)
        /\ ~st_results[i].expired
        /\ st_tasks[st_results[i].task_id].status = "completed"}

\* CloudStorage.get_cached_result (cloud_storage.py:142-170): the newest
\* matching row, wrapped; None when there is none.
GetCachedResult(task_type, task_data) ==
    LET rows == CacheRows(task_type, task_data)
    IN  IF rows = {} THEN PyNone
        ELSE LET i == CHOOSE i \in rows : \A j \in rows : j <= i
             IN  [result |-> JsonLoadsValue(st_results[i].result_data),
                  cached |-> TRUE]

\* Python's truth value of a cache lookup: None is false, a non-empty dict true.
Truthy(v) == v # PyNone

\* The GamerClient's key for its n-th submit (run_gamer.py:80).
ClientKey(n) == <<MdGamerId, md_now, n>>

\* A task_result message to the gamer.  submit, task, waiting and resolved
\* are history: the submit the message answers, the <<task_type, task_data>>
\* it is about, whether that submit's future was still waiting when the
\* message came, and whether listen_loop found the message's task_id in
\* pending_tasks (run_gamer.py:123-135).
GamerMessage(task_id, status, result, cached, error, submit, task, pend) ==
    [task_id |-> task_id, status |-> status, result |-> result,
     cached |-> cached, error |-> error, submit |-> submit, task |-> task,
     waiting |-> \E k \in pend : k[3] = submit,
     resolved |-> task_id \in pend]

\* A message m is sent on the gamer's connection and GamerClient.listen_loop
\* handles it (run_gamer.py:118-135); pend is pending_tasks before it.
Deliver(m, pend) ==
    /\ md_delivered' = Append(md_delivered, m)
    /\ gc_pending' = pend \ {m.task_id}

\* handle_client, register_peer on connection c (run_cloud.py:57-70).
md_register_peer(c, p) ==
    /\ md_h[c].pc = "idle" /\ md_h[c].client_type = "None"
    /\ md_h' = [md_h EXCEPT ![c].client_id = p, ![c].client_type = "peer"]
    /\ md_peers' = With(md_peers, p, c)
    /\ md_peer_order' = IF p \in DOMAIN md_peers THEN md_peer_order
                        ELSE Append(md_peer_order, p)
    /\ st_peers' = IF p \in DOMAIN st_peers THEN st_peers ELSE With(st_peers, p, 0)
    /\ UNCHANGED <<md_gamers, md_pending, md_tasks_routed, md_now, st_tasks,
                   st_results, st_gamers, gc_pending, gc_submitted, gc_connected,
                   md_exec, md_delivered>>
    /\ MdEvent
    /\ UNCHANGED not_md_vars

\* GamerClient.connect (run_gamer.py:42-64) and handle_client, register_gamer
\* (run_cloud.py:72-85).
md_register_gamer ==
    /\ md_h[MdGamerConn].pc = "idle" /\ md_h[MdGamerConn].client_type = "None"
    /\ md_h' = [md_h EXCEPT ![MdGamerConn].client_id = MdGamerId,
                            ![MdGamerConn].client_type = "gamer"]
    /\ md_gamers' = With(md_gamers, MdGamerId, MdGamerConn)
    /\ st_gamers' = IF MdGamerId \in DOMAIN st_gamers THEN st_gamers
                    ELSE With(st_gamers, MdGamerId, 0)
    /\ gc_connected' = TRUE
    /\ UNCHANGED <<md_peers, md_peer_order, md_pending, md_tasks_routed, md_now,
                   st_tasks, st_results, st_peers, gc_pending, gc_submitted,
                   md_exec, md_delivered>>
    /\ MdEvent
    /\ UNCHANGED not_md_vars

\* A millisecond passes.
md_tick ==
    /\ md_now < MaxMdClock
    /\ md_now' = md_now + 1
    /\ UNCHANGED <<md_peers, md_peer_order, md_gamers, md_pending, md_tasks_routed,
                   md_h, st_tasks, st_results, st_peers, st_gamers, gc_pending,
                   gc_submitted, gc_connected, md_exec, md_delivered>>
    /\ MdEvent
    /\ UNCHANGED not_md_vars

\* A wrong form of submit_task_hit: the cache hit is counted as routed.
submit_task_hit_counted(task_id, cached, submit, task, pend) ==
    /\ Deliver(GamerMessage(task_id, "completed", cached, TRUE, "None",
                            submit, task, pend), pend)
    /\ md_tasks_routed' = md_tasks_routed + 1
    /\ UNCHANGED <<md_h, md_pending, st_tasks, md_exec>>

\* handle_client, submit_task answered from the cache (run_cloud.py:99-108).
submit_task_hit(task_id, cached, submit, task, pend) ==
    /\ Deliver(GamerMessage(task_id, "completed", cached, TRUE, "None",
                            submit, task, pend), pend)
    /\ UNCHANGED <<md_h, md_pending, md_tasks_routed, st_tasks, md_exec>>

\* GamerClient.submit_task up to its wait for the future (run_gamer.py:75-100)
\* and handle_client, submit_task (run_cloud.py:88-145) up to the await of the
\* execute_task send or to the end of the message.
md_submit_task(task_type, task_data) ==
    /\ gc_connected
    /\ md_h[MdGamerConn].pc = "idle" /\ md_h[MdGamerConn].client_type = "gamer"
    /\ gc_submitted' = gc_submitted + 1
    /\ LET c == MdGamerConn
           client_id == md_h[c].client_id
           submit == gc_submitted
           pend == gc_pending \cup {ClientKey(submit)}
           task_id == <<client_id, md_now>>
           cached == GetCachedResult(task_type, task_data)
           stored == StoreTask(st_tasks, task_id, client_id, task_type, task_data)
       IN  IF Truthy(cached)
           THEN submit_task_hit(task_id, cached, submit,
                                <<task_type, task_data>>, pend)
           ELSE IF md_peer_order # << >>
           THEN LET peer_id == md_peer_order[1]
                IN  /\ st_tasks' = AssignTaskToPeer(stored, task_id, peer_id)
                    /\ md_exec' = md_exec \cup
                           {[conn |-> md_peers[peer_id], task_id |-> task_id,
                             task_type |-> task_type, task_data |-> task_data,
                             submit |-> submit]}
                    /\ md_h' = [md_h EXCEPT ![c].pc = "dispatch_send",
                                            ![c].task_id = task_id,
                                            ![c].peer_id = peer_id,
                                            ![c].submit = submit]
                    /\ gc_pending' = pend
                    /\ UNCHANGED <<md_pending, md_tasks_routed, md_delivered>>
           ELSE /\ st_tasks' = stored
                /\ Deliver(GamerMessage(task_id, "error", PyNone, FALSE,
                                        "No peers available", submit,
                                        <<task_type, task_data>>, pend), pend)
                /\ UNCHANGED <<md_h, md_pending, md_tasks_routed, md_exec>>
    /\ UNCHANGED <<md_peers, md_peer_order, md_gamers, md_now, st_results,
                   st_peers, st_gamers, gc_connected>>
    /\ MdEvent
    /\ UNCHANGED not_md_vars

\* handle_client, submit_task after the execute_task send (run_cloud.py:128-136).
md_dispatch_resume(c) ==
    /\ md_h[c].pc = "dispatch_send"
    /\ md_pending' = With(md_pending, md_h[c].task_id,
                          [gamer_id |-> md_h[c].client_id,
                           peer_id |-> md_h[c].peer_id,
                           submit |-> md_h[c].submit])
    /\ md_tasks_routed' = md_tasks_routed + 1
    /\ md_h' = [md_h EXCEPT ![c].pc = "idle"]
    /\ UNCHANGED <<md_peers, md_peer_order, md_gamers, md_now, st_tasks,
                   st_results, st_peers, st_gamers, gc_pending, gc_submitted,
                   gc_connected, md_exec, md_delivered>>
    /\ UNCHANGED <<md_events, not_md_vars>>

\* The result field of a PeerNode's reply (run_peer.py:80-114): what
\* execute_task returned, or no result at all when it raised.
PeerReplyResult(e, ok) ==
    IF ok THEN ExecuteTask(e.task_type, e.task_data) ELSE PyNone

\* PeerNode.handle_task answers the execute_task message e (run_peer.py:73-114)
\* and handle_client handles the task_result on the peer's connection
\* (run_cloud.py:148-186), up to the await of the forward to the gamer.
md_task_result(e, ok) ==
    /\ e \in md_exec
    /\ md_h[e.conn].pc = "idle" /\ md_h[e.conn].client_type = "peer"
    /\ md_exec' = md_exec \ {e}
    /\ LET c == e.conn
           task_id == e.task_id
           result == PeerReplyResult(e, ok)
       IN  IF task_id \in DOMAIN md_pending
           THEN LET gamer_id == md_pending[task_id].gamer_id
                IN  /\ st_results' = Append(st_results, ResultRow(task_id, result))
                    /\ st_tasks' = CompleteTask(st_tasks, task_id)
                    /\ st_peers' = IF md_h[c].client_id \in DOMAIN st_peers
                                   THEN [st_peers EXCEPT ![md_h[c].client_id] = @ + 1]
                                   ELSE st_peers
                    /\ st_gamers' = IF gamer_id \in DOMAIN st_gamers
                                    THEN [st_gamers EXCEPT ![gamer_id] = @ + 1]
                                    ELSE st_gamers
                    /\ IF gamer_id \in DOMAIN md_gamers
                       THEN /\ Deliver(GamerMessage(task_id, "completed", result,
                                           FALSE, "None",
                                           md_pending[task_id].submit,
                                           <<e.task_type, e.task_data>>,
                                           gc_pending),
                                       gc_pending)
                            /\ md_h' = [md_h EXCEPT ![c].pc = "result_send",
                                                    ![c].task_id = task_id]
                            /\ UNCHANGED md_pending
                       ELSE /\ md_pending' = Without(md_pending, task_id)
                            /\ UNCHANGED <<md_h, md_delivered, gc_pending>>
           ELSE UNCHANGED <<st_results, st_tasks, st_peers, st_gamers, md_h,
                            md_pending, md_delivered, gc_pending>>
    /\ UNCHANGED <<md_peers, md_peer_order, md_gamers, md_tasks_routed, md_now,
                   gc_submitted, gc_connected>>
    /\ MdEvent
    /\ UNCHANGED not_md_vars

\* The end of handle_client for connection c (run_cloud.py:192-200): the
\* client_id it registered is deleted from its registry.
HandlerCleanup(c) ==
    /\ md_h' = [md_h EXCEPT ![c].pc = "closed"]
    /\ IF md_h[c].client_type = "peer" /\ md_h[c].client_id \in DOMAIN md_peers
       THEN /\ md_peers' = Without(md_peers, md_h[c].client_id)
            /\ md_peer_order' = SeqWithout(md_peer_order, md_h[c].client_id)
       ELSE UNCHANGED <<md_peers, md_peer_order>>
    /\ IF md_h[c].client_type = "gamer" /\ md_h[c].client_id \in DOMAIN md_gamers
       THEN md_gamers' = Without(md_gamers, md_h[c].client_id)
       ELSE UNCHANGED md_gamers

\* handle_client, task_result after the forward (run_cloud.py:184-186).  When
\* the pending_tasks entry is gone the del raises KeyError, which ends
\* handle_client for this connection (run_cloud.py:190-200).
md_result_resume(c) ==
    /\ md_h[c].pc = "result_send"
    /\ IF md_h[c].task_id \in DOMAIN md_pending
       THEN /\ md_pending' = Without(md_pending, md_h[c].task_id)
            /\ md_h' = [md_h EXCEPT ![c].pc = "idle"]
            /\ UNCHANGED <<md_peers, md_peer_order, md_gamers>>
       ELSE /\ HandlerCleanup(c)
            /\ UNCHANGED md_pending
    /\ UNCHANGED <<md_tasks_routed, md_now, st_tasks, st_results, st_peers,
                   st_gamers, gc_pending, gc_submitted, gc_connected, md_exec,
                   md_delivered>>
    /\ UNCHANGED <<md_events, not_md_vars>>

\* Connection c closes while its handler waits for a message
\* (run_cloud.py:188-200); the GamerClient's listen_loop ends
\* (run_gamer.py:137-139).
md_disconnect(c) ==
    /\ md_h[c].pc = "idle"
    /\ HandlerCleanup(c)
    /\ gc_connected' = IF c = MdGamerConn THEN FALSE ELSE gc_connected
    /\ UNCHANGED <<md_pending, md_tasks_routed, md_now, st_tasks, st_results,
                   st_peers, st_gamers, gc_pending, gc_submitted, md_exec,
                   md_delivered>>
    /\ MdEvent
    /\ UNCHANGED not_md_vars

\* asyncio.wait_for gives up on the future with key k (run_gamer.py:111-113).
\* Every submit waits TASK_TIMEOUT, so the oldest future gives up first.
gc_timeout(k) ==
    /\ k \in gc_pending
    /\ \A j \in gc_pending : k[3] <= j[3]
    /\ gc_pending' = gc_pending \ {k}
    /\ UNCHANGED <<md_peers, md_peer_order, md_gamers, md_pending, md_tasks_routed,
                   md_h, md_now, st_tasks, st_results, st_peers, st_gamers,
                   gc_submitted, gc_connected, md_exec, md_delivered>>
    /\ MdEvent
    /\ UNCHANGED not_md_vars

\* RESULT_CACHE_HOURS pass since the i-th results row was stored.
md_result_expires(i) ==
    /\ i \in 1..Len(st_results)
    /\ ~st_results[i].expired
    /\ st_results' = [st_results EXCEPT ![i].expired = TRUE]
    /\ UNCHANGED <<md_peers, md_peer_order, md_gamers, md_pending, md_tasks_routed,
                   md_h, md_now, st_tasks, st_peers, st_gamers, gc_pending,
                   gc_submitted, gc_connected, md_exec, md_delivered>>
    /\ MdEvent
    /\ UNCHANGED not_md_vars

\* CloudCoordinator.cleanup_loop: CloudStorage.cleanup_expired_results
\* (cloud_storage.py:269-279).
cleanup_expired_results ==
    /\ \E i \in 1..Len(st_results) : st_results[i].expired
    /\ st_results' = SelectSeq(st_results, LAMBDA r : ~r.expired)
    /\ UNCHANGED <<md_peers, md_peer_order, md_gamers, md_pending, md_tasks_routed,
                   md_h, md_now, st_tasks, st_peers, st_gamers, gc_pending,
                   gc_submitted, gc_connected, md_exec, md_delivered>>
    /\ UNCHANGED <<md_events, not_md_vars>>

NextMD ==
    \/ \E c \in MdPeerConns, p \in MdPeerIds : md_register_peer(c, p)
    \/ md_register_gamer
    \/ md_tick
    \/ \E ty \in MdTaskTypes, d \in MdTaskDatas : md_submit_task(ty, d)
    \/ \E c \in MdConns : md_dispatch_resume(c)
    \/ \E e \in md_exec, ok \in BOOLEAN : md_task_result(e, ok)
    \/ \E c \in MdConns : md_result_resume(c)
    \/ \E c \in MdConns : md_disconnect(c)
    \/ \E k \in gc_pending : gc_timeout(k)
    \/ \E i \in 1..MaxMdEvents : md_result_expires(i)
    \/ cleanup_expired_results

(***************************************************************************)
(* Claims about the multi-device demo                                      *)
(***************************************************************************)
\* C13: a submit_task for which the cache returns an entry is answered
\* directly: no execute_task message is sent, no pending_tasks entry is
\* created, and tasks_routed, the stored task rows and all peer and gamer
\* counters are unchanged.
C13_CacheHitTouchesNothing ==
    [][(Len(md_delivered') = Len(md_delivered) + 1
          /\ md_delivered'[Len(md_delivered')].cached)
       => UNCHANGED <<md_exec, md_pending, md_tasks_routed, st_tasks,
                      st_results, st_peers, st_gamers>>]_vars

\* C13 witness: a submit was answered from the cache after a task had been
\* routed to a peer.
C13_Witness ==
    /\ md_tasks_routed > 0
    /\ \E i \in 1..Len(md_delivered) :
          md_delivered[i].cached /\ md_delivered[i].status = "completed"

\* C14: when the same (task_type, task_data) is submitted twice within the
\* TTL and the first submission completed successfully, the result field of
\* the message for the second submission is identical to that of the first.
C14_CachedResultIdentical ==
    \A i, j \in 1..Len(md_delivered) :
        (/\ i < j
         /\ md_delivered[i].task = md_delivered[j].task
         /\ ~md_delivered[i].cached
         /\ md_delivered[i].status = "completed"
         /\ md_delivered[i].result # PyNone
         /\ md_delivered[j].cached)
            => md_delivered[j].result = md_delivered[i].result

\* C15: once a completed task with an unexpired result is stored for
\* (task_type, d), get_cached_result(task_type, d2) returns a result of such
\* a task for every d2 that equals d as a key-to-value map.
C15_CacheFindsEqualMaps ==
    \A i \in 1..Len(st_results) : \A d, d2 \in MdTaskDatas :
        LET tk == st_results[i].task_id
        IN  (/\ tk \in DOMAIN st_tasks
             /\ st_tasks[tk].status = "completed"
             /\ st_tasks[tk].task_data = JsonDumps(d)
             /\ ~st_results[i].expired
             /\ st_results[i].result_data # JsonDumpsValue(PyNone)
             /\ AsMap(d2) = AsMap(d))
                => LET hit == GetCachedResult(st_tasks[tk].task_type, d2)
                   IN  /\ Truthy(hit)
                       /\ \E k \in 1..Len(st_results) :
                             /\ st_results[k].task_id \in DOMAIN st_tasks
                             /\ AsMap(st_tasks[st_results[k].task_id].task_data.text)
                                    = AsMap(d)
                             /\ hit.result = JsonLoadsValue(st_results[k].result_data)

\* C16: when two submit_task messages with the same task_type and task_data
\* arrive before a result for either is stored, at most one execute_task is
\* sent for them before the first completes.
C16_SingleFlight ==
    \A e1, e2 \in md_exec :
        (e1.task_type = e2.task_type /\ e1.task_data = e2.task_data) => e1 = e2

\* C17: when a peer replies with an error and no result, the gamer is sent a
\* failure carrying that error, and the outcome is not stored as a completed
\* cache entry, so no later submit is served it from the cache.
C17_PeerErrorIsFailure ==
    /\ \A i \in 1..Len(md_delivered) :
          (~md_delivered[i].cached /\ md_delivered[i].result = PyNone)
              => /\ md_delivered[i].status = "error"
                 /\ md_delivered[i].error # "None"
    /\ \A i \in 1..Len(st_results) :
          (st_results[i].result_data = JsonDumpsValue(PyNone)
             /\ st_results[i].task_id \in DOMAIN st_tasks)
              => st_tasks[st_results[i].task_id].status # "completed"
    /\ \A i \in 1..Len(md_delivered) :
          md_delivered[i].cached => md_delivered[i].result.result # PyNone

\* C18: when the coordinator sends the task_result for a submit whose future
\* is still waiting, the message's task_id is the key of that future, so the
\* future is resolved by it.
C18_ResultResolvesFuture ==
    \A i \in 1..Len(md_delivered) :
        (md_delivered[i].status = "completed" /\ md_delivered[i].waiting)
            => md_delivered[i].resolved

\* C19: once the GamerClient's connection has closed, no future is left
\* waiting in its pending_tasks.
C19_CloseCompletesFutures ==
    (md_h[MdGamerConn].pc = "closed" /\ ~gc_connected) => gc_pending = {}

\* The submits the coordinator routed to a peer, each with the task_id it
\* was given: those not answered yet and those whose result was forwarded.
RoutedIds ==
    {<<e.submit, e.task_id>> : e \in md_exec}
        \cup {<<md_delivered[i].submit, md_delivered[i].task_id>> :
                 i \in {j \in 1..Len(md_delivered) :
                           md_delivered[j].status = "completed"
                               /\ ~md_delivered[j].cached}}

\* C23: every accepted submit_task is given a task_id different from that
\* of every other task accepted during the coordinator's lifetime, also for
\* two submits of one gamer handled within the same clock millisecond.
C23_TaskIdsUnique ==
    \A a, b \in RoutedIds : a[1] # b[1] => a[2] # b[2]

\* C34: a peer registered on a live connection stays in the peers registry
\* until that same connection closes; the closing of an older connection
\* that had registered the same peer_id does not remove it.
C34_LivePeerStaysRegistered ==
    \A c \in MdPeerConns :
        (md_h[c].client_type = "peer" /\ md_h[c].pc # "closed")
            => md_h[c].client_id \in DOMAIN md_peers

\* C35: a peer's task_result for a task the coordinator dispatched is never
\* dropped: whenever the coordinator handles the result, the pending_tasks
\* entry of the task exists, so the result is forwarded and the entry removed.
C35_ResultNeverDropped ==
    [][\A e \in md_exec, ok \in BOOLEAN :
          md_task_result(e, ok) => e.task_id \in DOMAIN md_pending]_vars

(***************************************************************************)
(* SpatialSplitter (src/docs/archive/src/p2c2g/task_splitter.py).          *)
(*                                                                         *)
(* _create_tiles uses only the shape of complexity_map, so a call is       *)
(* given by width, height and num_tiles.  A TileBounds is a record; pixel  *)
(* (px, py) with 0 <= px < width and 0 <= py < height lies in a tile when  *)
(* x <= px < x + width and y <= py < y + height.                           *)
(***************************************************************************)
\* The call has not returned yet.
NoTiles == [returned |-> FALSE]

InitSplit(width, height, num_tiles) ==
    /\ sp_width = width
    /\ sp_height = height
    /\ sp_num_tiles = num_tiles
    /\ sp_tiles = NoTiles

\* int(np.ceil(np.sqrt(n))) for n >= 1.
CeilSqrt(n) ==
    CHOOSE g \in 1..n : g * g >= n /\ (g - 1) * (g - 1) < n

\* TileBounds(x, y, width, height) (task_splitter.py:15-21).
TileBounds(x, y, w, h) == [x |-> x, y |-> y, width |-> w, height |-> h]

\* SpatialSplitter._create_tiles (task_splitter.py:133-163): the cells of a
\* grid_size x grid_size grid in row-major order, the last column and row
\* taking the remainder; `break` leaves the inner loop as soon as num_tiles
\* tiles exist, so the list is the first num_tiles cells.
CreateTiles(width, height, num_tiles) ==
    LET grid_size == CeilSqrt(num_tiles)
        tile_width == width \div grid_size
        tile_height == height \div grid_size
        Cell(k) ==
            LET row == (k - 1) \div grid_size
                col == (k - 1) % grid_size
                x == col * tile_width
                y == row * tile_height
                w == IF col < grid_size - 1 THEN tile_width ELSE width - x
                h == IF row < grid_size - 1 THEN tile_height ELSE height - y
            IN  TileBounds(x, y, w, h)
    IN  [k \in 1..Min(num_tiles, grid_size * grid_size) |-> Cell(k)]

\* The call _create_tiles(complexity_map, num_tiles) returns.
create_tiles ==
    /\ sp_tiles = NoTiles
    /\ sp_tiles' = [returned |-> TRUE,
                    tiles |-> CreateTiles(sp_width, sp_height, sp_num_tiles)]
    /\ UNCHANGED <<sp_width, sp_height, sp_num_tiles>>
    /\ UNCHANGED not_sp_vars

NextSplit ==
    \/ create_tiles

(***************************************************************************)
(* Claims about the SpatialSplitter                                        *)
(***************************************************************************)
\* Pixel (px, py) lies in tile t.
InTile(px, py, t) ==
    /\ t.x <= px /\ px < t.x + t.width
    /\ t.y <= py /\ py < t.y + t.height

\* C27: for every resolution and every num_peers N >= 1 the tiles partition
\* the width x height area: exactly N tiles are produced and every pixel
\* lies in exactly one tile (so no two tiles overlap).
C27_TilesPartition ==
    sp_tiles.returned =>
        /\ Len(sp_tiles.tiles) = sp_num_tiles
        /\ \A px \in 0..(sp_width - 1), py \in 0..(sp_height - 1) :
              Cardinality({k \in 1..Len(sp_tiles.tiles) :
                              InTile(px, py, sp_tiles.tiles[k])}) = 1

(***************************************************************************)
(* Specifications                                                          *)
(***************************************************************************)
\* Coordinator.__init__'s default max_attempts (coordinator.py:39).
DefaultMaxAttempts == 3

\* FrameDistributor.__init__'s default enable_fallback
\* (frame_distributor.py:62).
DefaultEnableFallback == TRUE

\* Each component starts from its constructor's state; the specification of a
\* component draws that component's constructor arguments.
InitSpecPoC ==
    /\ \E m \in 1..MaxAttemptsCap : InitPoC(m)
    /\ InitNet
    /\ InitFD(DefaultEnableFallback)
    /\ InitMD
    /\ InitSplit(1, 1, 1)

InitSpecNet ==
    /\ InitPoC(DefaultMaxAttempts)
    /\ InitNet
    /\ InitFD(DefaultEnableFallback)
    /\ InitMD
    /\ InitSplit(1, 1, 1)

InitSpecFD ==
    /\ InitPoC(DefaultMaxAttempts)
    /\ InitNet
    /\ \E fallback \in BOOLEAN : InitFD(fallback)
    /\ InitMD
    /\ InitSplit(1, 1, 1)

InitSpecMD ==
    /\ InitPoC(DefaultMaxAttempts)
    /\ InitNet
    /\ InitFD(DefaultEnableFallback)
    /\ InitMD
    /\ InitSplit(1, 1, 1)

InitSpecSplit ==
    /\ InitPoC(DefaultMaxAttempts)
    /\ InitNet
    /\ InitFD(DefaultEnableFallback)
    /\ InitMD
    /\ \E width, height \in 1..MaxResolution, num_tiles \in 1..MaxTiles :
          InitSplit(width, height, num_tiles)

SpecPoC == InitSpecPoC /\ [][NextPoC]_vars

SpecNet == InitSpecNet /\ [][NextNet]_vars

SpecFD == InitSpecFD /\ [][NextFD]_vars

SpecMD == InitSpecMD /\ [][NextMD]_vars

SpecSplit == InitSpecSplit /\ [][NextSplit]_vars

====
